---- MODULE Spec2Model ----
(***************************************************************************)
(* Recording and analysis pipeline of co_thinking_agent_simulation:        *)
(* ResponseAnalyzer (response_analyzer.py), ComprehensiveDataCollector     *)
(* (data_collection.py), DataAnalyzer (data_analyzer.py) and the scenario  *)
(* loop of ResearchSimulationOrchestrator (agent_system.py).               *)
(*                                                                         *)
(* A text is a sequence of tokens.  A token is a word of Vocabulary, a     *)
(* punctuation mark of Punct, or WS, one extra whitespace character.  The  *)
(* string a text stands for puts one blank before every word that is not   *)
(* the first token, and no blank before a punctuation mark.  A float is an *)
(* exact fraction <<n, d>> in lowest terms.                                *)
(***************************************************************************)
EXTENDS Integers, Sequences, FiniteSets, TLC

(* ------------------------------ bounds -------------------------------- *)
MaxLog == 2
MaxSurveys == 1
MaxRuns == 1

(* ------------------------------ fractions ----------------------------- *)
RECURSIVE GCD(_, _)
GCD(a, b) == IF b = 0 THEN a ELSE GCD(b, a % b)

Frac(n, d) == LET g == GCD(IF n < 0 THEN -n ELSE n, d) IN <<n \div g, d \div g>>
FAdd(p, q) == Frac(p[1] * q[2] + q[1] * p[2], p[2] * q[2])
FDiv(p, k) == Frac(p[1], p[2] * k)
FLess(p, q) == p[1] * q[2] < q[1] * p[2]
FLeq(p, q) == p[1] * q[2] <= q[1] * p[2]
FMin(p, q) == IF FLess(q, p) THEN q ELSE p
FMax(p, q) == IF FLess(p, q) THEN q ELSE p
FSub(p, q) == Frac(p[1] * q[2] - q[1] * p[2], p[2] * q[2])
FAbs(p) == IF p[1] < 0 THEN <<-p[1], p[2]>> ELSE p
FQuot(p, q) == Frac(p[1] * q[2], p[2] * q[1])
FZero == <<0, 1>>
FOne == <<1, 1>>
FHalf == <<1, 2>>

RECURSIVE FSum(_)
FSum(s) ==
    IF s = <<>> THEN FZero
    ELSE IF Len(s) = 1 THEN s[1]
    ELSE LET half == Len(s) \div 2
         IN FAdd(FSum(SubSeq(s, 1, half)), FSum(SubSeq(s, half + 1, Len(s))))

Min(a, b) == IF a < b THEN a ELSE b
Max(a, b) == IF a > b THEN a ELSE b

(* dict.get(key, default) *)
Get(d, k, default) == IF k \in DOMAIN d THEN d[k] ELSE default

(* A profile value that is not a string (Python None). *)
None == "<None>"

(* ------------------------------ texts --------------------------------- *)
WS == " "
Punct == {".", "?", "!", ","}
Vocabulary ==
    {"I", "think", "believe", "we", "our", "my", "trust", "partner", "because",
     "however", "together", "it", "works", "this", "is", "correct", "why",
     "help", "me", "please", "understand", "privacy", "support", "and",
     "would", "verify", "family", "knowledge", "ok", "However", "unsure",
     "collaboration", "amplify", "transparency", "ethical", "explainable", "training",
     "diversity", "adaptive"}

IsWord(t) == t # WS /\ t \notin Punct

(* str.lower() of one word of Vocabulary *)
Lower(w) == IF w = "I" THEN "i" ELSE IF w = "However" THEN "however" ELSE w

(* The single-word keywords of the analyzer's lexicons that occur as substrings
   of a word of Vocabulary (Python's `term in text`). *)
Contained(w) ==
    CASE w = "believe" -> {"believe"}
      [] w = "trust" -> {"trust"}
      [] w = "partner" -> {"partner"}
      [] w = "however" -> {"however"}
      [] w = "together" -> {"together"}
      [] w = "correct" -> {"correct"}
      [] w = "understand" -> {"understand"}
      [] w = "privacy" -> {"privacy"}
      [] w = "support" -> {"support"}
      [] w = "verify" -> {"verify"}
      [] w = "knowledge" -> {"know"}
      [] w = "unsure" -> {"sure"}
      [] OTHER -> {}

(* `term in response.lower()`: a term is a sequence of words; a one-word term
   may sit inside a longer word, a several-word term is matched on adjacent words *)
HasTerm(text, term) ==
    IF Len(term) = 1
    THEN \E i \in 1..Len(text) : IsWord(text[i]) /\ term[1] \in Contained(Lower(text[i])) \cup {Lower(text[i])}
    ELSE \E i \in 1..(Len(text) - Len(term) + 1) :
            \A k \in 1..Len(term) : IsWord(text[i + k - 1]) /\ Lower(text[i + k - 1]) = term[k]

(* len(re.findall(r'\b(w1|w2|...)\b', text, re.IGNORECASE)) for one-word alternatives *)
CountWords(text, words) == Cardinality({i \in 1..Len(text) : IsWord(text[i]) /\ Lower(text[i]) \in words})

(* the same for alternatives that are phrases (sequences of words) *)
CountPhrases(text, phrases) ==
    Cardinality({i \in 1..Len(text) : \E p \in phrases :
        /\ i + Len(p) - 1 <= Len(text)
        /\ \A k \in 1..Len(p) : IsWord(text[i + k - 1]) /\ Lower(text[i + k - 1]) = p[k]})

(* not response or not response.strip() *)
IsBlank(text) == \A i \in 1..Len(text) : text[i] = WS

(* A count of the words only, a mark that stands alone left out *)
WordCount_words(text) == Cardinality({i \in 1..Len(text) : IsWord(text[i])})

(* len(s.split()): the maximal runs of non-blank characters *)
WordCount(text) ==
    Cardinality({i \in 1..Len(text) :
        \/ IsWord(text[i])
        \/ text[i] \in Punct /\ (i = 1 \/ text[i - 1] = WS)})

(* len(s): the characters of the string the text stands for *)
RECURSIVE CharCount(_)
CharCount(text) ==
    IF text = <<>> THEN 0
    ELSE LET n == Len(text)
             t == text[n]
         IN CharCount(SubSeq(text, 1, n - 1)) + Len(t) + (IF IsWord(t) /\ n > 1 THEN 1 ELSE 0)

(* response.split('.'): the pieces between the full stops *)
RECURSIVE SplitDot(_)
SplitDot(text) ==
    IF \A i \in 1..Len(text) : text[i] # "."
    THEN <<text>>
    ELSE LET k == CHOOSE i \in 1..Len(text) : text[i] = "." /\ \A j \in 1..(i - 1) : text[j] # "."
         IN <<SubSeq(text, 1, k - 1)>> \o SplitDot(SubSeq(text, k + 1, Len(text)))

(* s.strip() *)
RECURSIVE Strip(_)
Strip(text) ==
    IF text = <<>> THEN text
    ELSE IF Head(text) = WS THEN Strip(Tail(text))
    ELSE IF text[Len(text)] = WS THEN Strip(SubSeq(text, 1, Len(text) - 1))
    ELSE text

(* [s.strip() for s in response.split('.') if s.strip()] *)
Sentences(text) ==
    LET pieces == SelectSeq(SplitDot(text), LAMBDA s : ~IsBlank(s))
    IN [i \in 1..Len(pieces) |-> Strip(pieces[i])]

(* response.split(): where each maximal run of non-blank characters starts, and
   the run that starts there, a word or a mark with the marks written after it *)
SplitStarts(text) ==
    {i \in 1..Len(text) : IsWord(text[i]) \/ (text[i] \in Punct /\ (i = 1 \/ text[i - 1] = WS))}

SplitWord(text, i) ==
    LET last == CHOOSE j \in i..Len(text) :
                    /\ \A k \in (i + 1)..j : text[k] \in Punct
                    /\ j = Len(text) \/ text[j + 1] \notin Punct
    IN SubSeq(text, i, last)

(* word.lower() of a run *)
LowerWord(word) == [k \in 1..Len(word) |-> Lower(word[k])]

(* len([w for w in words if len(w) > 6]) *)
ComplexWords(text) == Cardinality({i \in SplitStarts(text) : CharCount(SplitWord(text, i)) > 6})

(* response.count(mark) *)
CountMark(text, mark) == Cardinality({i \in 1..Len(text) : text[i] = mark})

(* ------------------------- ResponseAnalyzer --------------------------- *)
foundation_keywords ==
    <<  <<  <<"partner">>, <<"collaboration">>, <<"human", "agency">>, <<"trust">>,
            <<"amplify">>, <<"cognitive", "partner">>  >>,
        <<  <<"transparency">>, <<"human", "dignity">>, <<"privacy">>, <<"ethical">>,
            <<"explainable">>, <<"human-centered">>  >>,
        <<  <<"user", "experience">>, <<"training">>, <<"support">>, <<"diversity">>,
            <<"human", "impact">>, <<"adaptive">>  >>  >>

ConstructNames ==
    <<"cognitive_partnership", "trust_calibration", "agency_distribution",
      "metacognitive_awareness", "cognitive_load_management">>

construct_indicators(c) ==
    CASE c = "cognitive_partnership" ->
            {<<"together">>, <<"collaborate">>, <<"partner">>, <<"work", "with">>, <<"team", "up">>, <<"combine">>}
      [] c = "trust_calibration" ->
            {<<"trust">>, <<"reliable">>, <<"depend">>, <<"confidence">>, <<"believe">>, <<"verify">>}
      [] c = "agency_distribution" ->
            {<<"control">>, <<"decide">>, <<"choice">>, <<"authority">>, <<"responsibility">>, <<"ownership">>}
      [] c = "metacognitive_awareness" ->
            {<<"understand">>, <<"know">>, <<"aware">>, <<"realize">>, <<"recognize">>, <<"learn", "about">>}
      [] c = "cognitive_load_management" ->
            {<<"easier">>, <<"difficult">>, <<"overwhelming">>, <<"manage">>, <<"handle">>, <<"process">>}

_empty_response_analysis ==
    [coherence_score |-> FZero,
     cultural_consistency |-> FZero,
     foundation_alignment |-> FZero,
     question_types |-> <<>>,
     response_categories |-> <<"empty">>,
     constructs_evident |-> <<>>,
     linguistic_analysis |-> <<>>,
     emotional_indicators |-> <<>>,
     complexity_score |-> FZero]

(* A coherence score that takes a sentence of four tokens for a substantial one *)
_calculate_coherence_four_tokens(response) ==
    LET sentences == Sentences(response)
        substantial_sentences ==
            Cardinality({i \in 1..Len(sentences) : WordCount(sentences[i]) >= 4})
        connectives ==
            CountWords(response, {"because", "since", "therefore", "however", "although",
                                  "but", "and", "so", "thus"})
        personal_refs ==
            CountPhrases(response, {<<"i", "think">>, <<"i", "believe">>, <<"in", "my", "opinion">>,
                                    <<"i", "would">>, <<"i", "feel">>})
        coherence_factors ==
            <<Frac(substantial_sentences, Max(1, Len(sentences))),
              FMin(FOne, Frac(connectives, 5)),
              FMin(FOne, Frac(personal_refs, 3)),
              Frac(8, 10)>>
    IN IF Len(sentences) < 1 THEN FZero
       ELSE FDiv(FSum(coherence_factors), Len(coherence_factors))

_calculate_coherence(response) ==
    LET sentences == Sentences(response)
        substantial_sentences ==
            Cardinality({i \in 1..Len(sentences) : WordCount(sentences[i]) > 4})
        connectives ==
            CountWords(response, {"because", "since", "therefore", "however", "although",
                                  "but", "and", "so", "thus"})
        personal_refs ==
            CountPhrases(response, {<<"i", "think">>, <<"i", "believe">>, <<"in", "my", "opinion">>,
                                    <<"i", "would">>, <<"i", "feel">>})
        coherence_factors ==
            <<Frac(substantial_sentences, Max(1, Len(sentences))),
              FMin(FOne, Frac(connectives, 5)),
              FMin(FOne, Frac(personal_refs, 3)),
              Frac(8, 10)>>
    IN IF Len(sentences) < 1 THEN FZero
       ELSE FDiv(FSum(coherence_factors), Len(coherence_factors))

(* `needle in culture.lower()` for the culture labels of student_profiles.py *)
LowerHas(culture, needle) ==
    \/ needle = "individualistic" /\ culture \in {"US_Individualistic"}
    \/ needle = "collectivistic" /\ culture \in {"East_Asian_Collectivistic"}
    \/ needle = "balanced" /\ culture \in {"European_Balanced"}

(* A cultural score without its caps *)
_assess_cultural_consistency_uncapped(response, profile) ==
    LET culture == Get(profile, "culture", "")
    IN IF LowerHas(culture, "individualistic")
       THEN Frac(CountWords(response, {"i", "my", "myself", "personally", "individual"}), 8)
       ELSE IF LowerHas(culture, "collectivistic")
       THEN Frac(CountWords(response, {"we", "our", "together", "group", "community",
                                       "family", "collective"}), 6)
       ELSE IF LowerHas(culture, "balanced")
       THEN LET individual_count == CountWords(response, {"i", "my", "myself"})
                collective_count == CountWords(response, {"we", "our", "together"})
                diff == IF individual_count > collective_count
                        THEN individual_count - collective_count
                        ELSE collective_count - individual_count
            IN Frac(Max(1, individual_count + collective_count) - diff,
                    Max(1, individual_count + collective_count))
       ELSE Frac(7, 10)

(* A balanced branch that counts the markers of the two other branches *)
_assess_cultural_consistency_all_markers(response, profile) ==
    LET culture == Get(profile, "culture", "")
    IN IF LowerHas(culture, "individualistic")
       THEN FMin(FOne, Frac(CountWords(response, {"i", "my", "myself", "personally", "individual"}), 8))
       ELSE IF LowerHas(culture, "collectivistic")
       THEN FMin(FOne, Frac(CountWords(response, {"we", "our", "together", "group", "community",
                                                  "family", "collective"}), 6))
       ELSE IF LowerHas(culture, "balanced")
       THEN LET individual_count ==
                    CountWords(response, {"i", "my", "myself", "personally", "individual"})
                collective_count ==
                    CountWords(response, {"we", "our", "together", "group", "community",
                                          "family", "collective"})
                diff == IF individual_count > collective_count
                        THEN individual_count - collective_count
                        ELSE collective_count - individual_count
            IN Frac(Max(1, individual_count + collective_count) - diff,
                    Max(1, individual_count + collective_count))
       ELSE Frac(7, 10)

_assess_cultural_consistency(response, profile) ==
    LET culture == Get(profile, "culture", "")
    IN IF LowerHas(culture, "individualistic")
       THEN FMin(FOne, Frac(CountWords(response, {"i", "my", "myself", "personally", "individual"}), 8))
       ELSE IF LowerHas(culture, "collectivistic")
       THEN FMin(FOne, Frac(CountWords(response, {"we", "our", "together", "group", "community",
                                                  "family", "collective"}), 6))
       ELSE IF LowerHas(culture, "balanced")
       THEN LET individual_count == CountWords(response, {"i", "my", "myself"})
                collective_count == CountWords(response, {"we", "our", "together"})
                diff == IF individual_count > collective_count
                        THEN individual_count - collective_count
                        ELSE collective_count - individual_count
            IN Frac(Max(1, individual_count + collective_count) - diff,
                    Max(1, individual_count + collective_count))
       ELSE Frac(7, 10)

_assess_foundation_alignment(response) ==
    LET score(terms) ==
            FMin(FOne, Frac(Cardinality({i \in 1..Len(terms) : HasTerm(response, terms[i])}), Len(terms)))
        alignment_scores == [s \in 1..Len(foundation_keywords) |-> score(foundation_keywords[s])]
    IN FDiv(FSum(alignment_scores), Len(alignment_scores))

(* re.search(r'\b(p1|p2|...)\b.*\?', text): an alternative, and a question mark after it *)
PhraseThenQuestion(text, phrases) ==
    \E i \in 1..Len(text) : \E p \in phrases :
        /\ i + Len(p) - 1 <= Len(text)
        /\ \A k \in 1..Len(p) : IsWord(text[i + k - 1]) /\ Lower(text[i + k - 1]) = p[k]
        /\ \E j \in (i + Len(p))..Len(text) : text[j] = "?"

_identify_question_types(response) ==
    LET hit(t) ==
          CASE t = "factual_question" ->
                  PhraseThenQuestion(response, {<<"what">>, <<"how">>, <<"why">>, <<"when">>, <<"where">>})
            [] t = "request_for_help" ->
                  CountPhrases(response, {<<"could", "you">>, <<"can", "you">>, <<"would", "you">>,
                                          <<"please">>, <<"help", "me">>}) > 0
            [] t = "confirmation_seeking" ->
                  PhraseThenQuestion(response, {<<"is", "this">>, <<"am", "i">>, <<"should", "i">>,
                                                <<"correct">>, <<"right">>})
            [] t = "clarification_request" ->
                  CountWords(response, {"explain", "clarify", "elaborate", "mean", "understand"}) > 0
            [] t = "hypothetical_question" ->
                  CountPhrases(response, {<<"what", "if">>, <<"suppose">>, <<"imagine">>, <<"would", "it">>}) > 0
    IN SelectSeq(<<"factual_question", "request_for_help", "confirmation_seeking",
                   "clarification_request", "hypothetical_question">>, hit)

_categorize_response(response) ==
    LET any(terms) == \E t \in terms : HasTerm(response, t)
        hit(c) ==
          CASE c = "appreciative" -> any({<<"thank">>, <<"appreciate">>, <<"helpful">>, <<"great">>})
            [] c = "uncertain" -> any({<<"confused">>, <<"unsure">>, <<"unclear">>, <<"don't", "understand">>})
            [] c = "agreeable" -> any({<<"agree">>, <<"correct">>, <<"right">>, <<"yes">>, <<"exactly">>})
            [] c = "questioning" -> any({<<"however">>, <<"but">>, <<"disagree">>, <<"different">>, <<"not", "sure">>})
            [] c = "example_seeking" ->
                  CountPhrases(response, {<<"example">>, <<"instance">>, <<"like">>, <<"such", "as">>}) > 0
            [] c = "procedural" ->
                  CountWords(response, {"step", "first", "then", "next", "finally"}) > 1
            [] c = "reflective" ->
                  CountWords(response, {"think", "believe", "opinion", "feel", "perspective"}) > 0
        categories == SelectSeq(<<"appreciative", "uncertain", "agreeable", "questioning",
                                  "example_seeking", "procedural", "reflective">>, hit)
    IN IF categories # <<>> THEN categories ELSE <<"neutral">>

_identify_constructs(response) ==
    SelectSeq(ConstructNames, LAMBDA c : \E t \in construct_indicators(c) : HasTerm(response, t))

(* a proficiency label that is not in the table of lines 220-225 counts as 0.2 *)
expected_complexity(proficiency) ==
    CASE proficiency = "Native" -> Frac(3, 10)
      [] proficiency = "Advanced" -> Frac(1, 4)
      [] proficiency = "Intermediate" -> Frac(3, 20)
      [] proficiency = "Beginner" -> Frac(1, 20)
      [] OTHER -> Frac(1, 5)

(* A proficiency score that takes a profile without the key for one with a label
   that is not in the table *)
_assess_proficiency_consistency_unstated(response, profile) ==
    LET proficiency == Get(profile, "english_proficiency", "")
        complex_ratio == Frac(ComplexWords(response), Max(1, WordCount(response)))
        expected == expected_complexity(proficiency)
        consistency ==
            FSub(FOne, FQuot(FAbs(FSub(complex_ratio, expected)), FMax(expected, Frac(1, 10))))
    IN FMax(FZero, FMin(FOne, consistency))

_assess_proficiency_consistency(response, profile) ==
    LET proficiency == Get(profile, "english_proficiency", "Advanced")
        complex_ratio == Frac(ComplexWords(response), Max(1, WordCount(response)))
        expected == expected_complexity(proficiency)
        consistency ==
            FSub(FOne, FQuot(FAbs(FSub(complex_ratio, expected)), FMax(expected, Frac(1, 10))))
    IN FMax(FZero, FMin(FOne, consistency))

_analyze_linguistic_features(response, profile) ==
    [word_count |-> WordCount(response),
     sentence_count |-> Len(Sentences(response)),
     avg_sentence_length |-> Frac(WordCount(response), Max(1, Len(Sentences(response)))),
     complex_words |-> ComplexWords(response),
     question_count |-> CountMark(response, "?"),
     exclamation_count |-> CountMark(response, "!"),
     proficiency_consistency |-> _assess_proficiency_consistency(response, profile)]

EmotionNames == <<"excitement", "anxiety", "confidence", "confusion", "frustration", "satisfaction">>

emotion_patterns(e) ==
    CASE e = "excitement" -> {<<"excited">>, <<"amazing">>, <<"awesome">>, <<"love">>, <<"fantastic">>}
      [] e = "anxiety" -> {<<"worried">>, <<"nervous">>, <<"anxious">>, <<"scared">>, <<"afraid">>}
      [] e = "confidence" ->
            {<<"confident">>, <<"sure">>, <<"certain">>, <<"definitely">>, <<"absolutely">>}
      [] e = "confusion" -> {<<"confused">>, <<"lost">>, <<"unclear">>, <<"puzzled">>, <<"bewildered">>}
      [] e = "frustration" ->
            {<<"frustrated">>, <<"annoying">>, <<"difficult">>, <<"struggling">>, <<"hard">>}
      [] e = "satisfaction" -> {<<"satisfied">>, <<"pleased">>, <<"happy">>, <<"glad">>, <<"content">>}

_identify_emotional_indicators(response) ==
    SelectSeq(EmotionNames, LAMBDA e : \E t \in emotion_patterns(e) : HasTerm(response, t))

_calculate_complexity(response) ==
    LET words == SplitStarts(response)
        sentences == Sentences(response)
        unique_words == Cardinality({LowerWord(SplitWord(response, i)) : i \in words})
        lexical_diversity == Frac(unique_words, Max(1, Cardinality(words)))
        avg_sentence_length == Frac(Cardinality(words), Max(1, Len(sentences)))
        syntactic_complexity == FMin(FOne, FDiv(avg_sentence_length, 15))
        complex_structures ==
            CountWords(response, {"although", "however", "nevertheless", "furthermore",
                                  "consequently"})
        semantic_complexity == FMin(FOne, Frac(complex_structures, 3))
        complexity_factors == <<lexical_diversity, syntactic_complexity, semantic_complexity>>
    IN IF IsBlank(response) THEN FZero
       ELSE FDiv(FSum(complexity_factors), Len(complexity_factors))

(* What a call of the analyzer ends in when it raises instead of returning. *)
AnalysisException == [exception |-> "AttributeError"]

(* A scorer that takes only the empty string for an empty response *)
analyze_response_unstripped(response, profile, context) ==
    IF response = <<>> THEN _empty_response_analysis
    ELSE IF Get(profile, "culture", "") = None THEN AnalysisException
    ELSE [coherence_score |-> _calculate_coherence(response),
          cultural_consistency |-> _assess_cultural_consistency(response, profile),
          foundation_alignment |-> _assess_foundation_alignment(response),
          question_types |-> _identify_question_types(response),
          response_categories |-> _categorize_response(response),
          constructs_evident |-> _identify_constructs(response),
          linguistic_analysis |-> _analyze_linguistic_features(response, profile),
          emotional_indicators |-> _identify_emotional_indicators(response),
          complexity_score |-> _calculate_complexity(response)]

(* culture.lower() on a profile whose culture is not a string raises *)
analyze_response(response, profile, context) ==
    IF IsBlank(response) THEN _empty_response_analysis
    ELSE IF Get(profile, "culture", "") = None THEN AnalysisException
    ELSE [coherence_score |-> _calculate_coherence(response),
          cultural_consistency |-> _assess_cultural_consistency(response, profile),
          foundation_alignment |-> _assess_foundation_alignment(response),
          question_types |-> _identify_question_types(response),
          response_categories |-> _categorize_response(response),
          constructs_evident |-> _identify_constructs(response),
          linguistic_analysis |-> _analyze_linguistic_features(response, profile),
          emotional_indicators |-> _identify_emotional_indicators(response),
          complexity_score |-> _calculate_complexity(response)]

(* ---------------------- ComprehensiveDataCollector -------------------- *)
(* A collector whose fallback bundle is the bundle of a blank response *)
response_analysis_zero(interaction_data) ==
    LET raw_response == Get(interaction_data, "student_response", <<>>)
        profile_summary == Get(interaction_data, "profile_summary", <<>>)
        analysis == analyze_response(raw_response, profile_summary, interaction_data)
    IN IF "exception" \in DOMAIN analysis THEN _empty_response_analysis ELSE analysis

(* A collector whose coherence score takes the scenario into account: a response
   given in a scenario context counts as fully aligned with its question *)
response_analysis_in_context(interaction_data) ==
    LET raw_response == Get(interaction_data, "student_response", <<>>)
        profile_summary == Get(interaction_data, "profile_summary", <<>>)
        analysis == analyze_response(raw_response, profile_summary, interaction_data)
    IN IF "exception" \in DOMAIN analysis
       THEN [coherence_score |-> FHalf,
             cultural_consistency |-> FHalf,
             foundation_alignment |-> FHalf,
             question_types |-> <<>>,
             response_categories |-> <<>>,
             constructs_evident |-> <<>>]
       ELSE IF "scenario_context" \in DOMAIN interaction_data
       THEN [analysis EXCEPT !.coherence_score = FMin(FOne, FAdd(@, Frac(1, 20)))]
       ELSE analysis

(* lines 99-116: the analyzer's bundle, or the fallback bundle when it raised *)
response_analysis(interaction_data) ==
    LET raw_response == Get(interaction_data, "student_response", <<>>)
        profile_summary == Get(interaction_data, "profile_summary", <<>>)
        analysis == analyze_response(raw_response, profile_summary, interaction_data)
    IN IF "exception" \in DOMAIN analysis
       THEN [coherence_score |-> FHalf,
             cultural_consistency |-> FHalf,
             foundation_alignment |-> FHalf,
             question_types |-> <<>>,
             response_categories |-> <<>>,
             constructs_evident |-> <<>>]
       ELSE analysis

(* A collector that leaves a field the profile summary lacks unset *)
profile_field_unset(profile_summary, key, default) ==
    IF key \in DOMAIN profile_summary THEN profile_summary[key] ELSE None

(* lines 131-141: profile.get(key, default) *)
profile_field(profile_summary, key, default) == Get(profile_summary, key, default)

(* lines 93-95 and 119-160: the record built from the payload and the bundle;
   now is datetime.now().isoformat() *)
InteractionRecord(agent_id, interaction_data, now, analysis) ==
    LET raw_response == Get(interaction_data, "student_response", <<>>)
        profile_summary == Get(interaction_data, "profile_summary", <<>>)
    IN [timestamp |-> Get(interaction_data, "timestamp", now),
        agent_id |-> agent_id,
        interaction_type |-> Get(interaction_data, "interaction_type", "scenario"),
        scenario_name |-> Get(interaction_data, "scenario_context", ""),
        scenario_type |-> Get(interaction_data, "scenario_type", "general"),
        prompt_text |-> Get(interaction_data, "task", ""),
        context |-> Get(interaction_data, "scenario_context", ""),
        task_description |-> Get(interaction_data, "task", ""),
        raw_response |-> raw_response,
        response_length_words |-> WordCount(raw_response),
        response_length_chars |-> CharCount(raw_response),
        cultural_background |-> profile_field(profile_summary, "culture", ""),
        age |-> profile_field(profile_summary, "age", 0),
        gender |-> profile_field(profile_summary, "gender", ""),
        native_language |-> profile_field(profile_summary, "language", ""),
        english_proficiency |-> profile_field(profile_summary, "english_proficiency", ""),
        socioeconomic_status |-> profile_field(profile_summary, "ses", ""),
        emotional_state |-> profile_field(profile_summary, "mood", ""),
        trust_level |-> profile_field(profile_summary, "trust", FZero),
        help_seeking_tendency |-> profile_field(profile_summary, "help_seeking", FZero),
        authority_deference |-> profile_field(profile_summary, "authority_deference", FZero),
        privacy_concern |-> profile_field(profile_summary, "privacy_concern", FZero),
        coherence_score |-> analysis.coherence_score,
        cultural_consistency_score |-> analysis.cultural_consistency,
        foundation_alignment_score |-> analysis.foundation_alignment,
        question_types_asked |-> analysis.question_types,
        response_categories |-> analysis.response_categories,
        psychological_constructs_evident |-> analysis.constructs_evident]

(* _extract_themes: the themes one of whose keywords occurs in the text *)
ThemeNames ==
    <<"trust", "collaboration", "control", "learning", "uncertainty", "efficiency",
      "creativity", "cultural">>

theme_keywords(theme) ==
    CASE theme = "trust" -> {<<"trust">>, <<"reliable">>, <<"dependable">>, <<"confidence">>}
      [] theme = "collaboration" -> {<<"collaborate">>, <<"work", "together">>, <<"partnership">>, <<"teamwork">>}
      [] theme = "control" -> {<<"control">>, <<"agency">>, <<"autonomy">>, <<"decision">>}
      [] theme = "learning" -> {<<"learn">>, <<"understand">>, <<"knowledge">>, <<"education">>}
      [] theme = "uncertainty" -> {<<"unsure">>, <<"uncertain">>, <<"doubt">>, <<"confused">>}
      [] theme = "efficiency" -> {<<"faster">>, <<"efficient">>, <<"quick">>, <<"time-saving">>}
      [] theme = "creativity" -> {<<"creative">>, <<"innovative">>, <<"original">>, <<"new", "ideas">>}
      [] theme = "cultural" -> {<<"culture">>, <<"tradition">>, <<"family">>, <<"community">>}

_extract_themes(text) ==
    SelectSeq(ThemeNames, LAMBDA theme : \E t \in theme_keywords(theme) : HasTerm(text, t))

(* _parse_survey_responses: the vocabulary holds no digit, so no rating is parsed;
   the first cue word followed by white space opens the one reasoning fragment of
   the line, which runs to its end *)
_parse_survey_responses(raw_response) ==
    LET cues == {i \in 1..(Len(raw_response) - 1) :
                    /\ IsWord(raw_response[i])
                    /\ Lower(raw_response[i]) \in {"because", "reason", "explanation"}
                    /\ (IsWord(raw_response[i + 1]) \/ raw_response[i + 1] = WS)}
        first == CHOOSE i \in cues : \A j \in cues : i <= j
        rest == SubSeq(raw_response, first + 1, Len(raw_response))
    IN IF cues = {}
       THEN [key_themes |-> _extract_themes(raw_response)]
       ELSE [reasoning_1 |-> Strip(rest),
             key_themes |-> _extract_themes(raw_response)]

(* A coherence that counts the indicators of a text without a full stop too *)
_calculate_survey_coherence_counted(text) ==
    LET sentences == SplitDot(text)
        coherence_indicators ==
            Cardinality({i \in 1..Len(sentences) : WordCount(sentences[i]) > 3})
            + CountWords(text, {"because", "since", "therefore", "however", "although"})
            + (IF \E i \in 1..Len(text) : text[i] \in {"I", "my", "me"} THEN 1 ELSE 0)
    IN FMin(FOne, Frac(coherence_indicators, 10))

(* lines 238-251: data_collection.py's own _calculate_coherence, used for surveys
   only *)
_calculate_survey_coherence(text) ==
    LET sentences == SplitDot(text)
        coherence_indicators ==
            Cardinality({i \in 1..Len(sentences) : WordCount(sentences[i]) > 3})
            + CountWords(text, {"because", "since", "therefore", "however", "although"})
            + (IF \E i \in 1..Len(text) : text[i] \in {"I", "my", "me"} THEN 1 ELSE 0)
    IN IF Len(sentences) < 2 THEN FHalf
       ELSE FMin(FOne, Frac(coherence_indicators, 10))

(* the vocabulary holds no digit: re.findall(r'\b\d+\b', text) is empty *)
_calculate_specificity(text) ==
    FMin(FOne, Frac(CountWords(text, {"when", "where", "how", "why"})
                    + CountWords(text, {"example", "instance", "specifically"}), 5))

_assess_cultural_relevance(text) ==
    FMin(FOne, Frac(CountWords(text, {"family", "community", "tradition", "culture"})
                    + CountWords(text, {"teacher", "authority", "respect", "hierarchy"})
                    + CountWords(text, {"individual", "group", "collective", "together"}), 3))

_assess_survey_quality(response) ==
    [completeness |-> FMin(FOne, Frac(WordCount(response), 50)),
     coherence |-> _calculate_survey_coherence(response),
     specificity |-> _calculate_specificity(response),
     cultural_relevance |-> _assess_cultural_relevance(response)]

(* lines 168-176 *)
SurveyRecord(agent_id, survey_data, now) ==
    [timestamp |-> Get(survey_data, "timestamp", now),
     agent_id |-> agent_id,
     survey_type |-> Get(survey_data, "survey_type", "general"),
     raw_responses |-> Get(survey_data, "survey_responses", <<>>),
     profile_context |-> Get(survey_data, "profile_context", ""),
     parsed_responses |-> _parse_survey_responses(Get(survey_data, "survey_responses", <<>>)),
     response_quality |-> _assess_survey_quality(Get(survey_data, "survey_responses", <<>>))]

(* ------------------------------ DataAnalyzer -------------------------- *)
NaN == "<nan>"

(* round(x, k) of a non-negative fraction: to the nearest multiple of 10^-k, a
   tie to the even one *)
Round(q, k) ==
    LET scale == IF k = 1 THEN 10 ELSE IF k = 2 THEN 100 ELSE 1000
        n == q[1] * scale
        fl == n \div q[2]
        twice == 2 * (n % q[2])
        up == twice > q[2] \/ (twice = q[2] /\ fl % 2 = 1)
    IN Frac(IF up THEN fl + 1 ELSE fl, scale)

(* df[column]: the values of a column of scores, and of a column of counts *)
Column(df, column) == [i \in 1..Len(df) |-> df[i][column]]
CountColumn(df, column) == [i \in 1..Len(df) |-> Frac(df[i][column], 1)]
Mean(s) == FDiv(FSum(s), Len(s))

(* The culture labels in sorted order: the order of the groups of
   df.groupby('cultural_background'), which drops the rows whose key is None *)
CultureOrder ==
    <<"", "East_Asian_Collectivistic", "European_Balanced", "Latin_American", "US_Individualistic">>

Rows(df, culture) == SelectSeq(df, LAMBDA r : r.cultural_background = culture)
(* Groups in the order in which the log first shows their labels *)
GroupKeys_first_seen(df) ==
    LET labels == {df[i].cultural_background : i \in 1..Len(df)} \ {None}
        first(c) == CHOOSE i \in 1..Len(df) :
                        /\ df[i].cultural_background = c
                        /\ \A j \in 1..(i - 1) : df[j].cultural_background # c
    IN [k \in 1..Cardinality(labels) |->
           CHOOSE c \in labels : Cardinality({d \in labels : first(d) < first(c)}) = k - 1]

GroupKeys(df) == SelectSeq(CultureOrder, LAMBDA c : Rows(df, c) # <<>>)

(* lines 43-57: the counts, and the means that are rounded *)
_generate_summary_statistics(df) ==
    [total_interactions |-> Len(df),
     unique_agents |-> Cardinality({df[i].agent_id : i \in 1..Len(df)}),
     cultural_diversity |-> Cardinality({df[i].cultural_background : i \in 1..Len(df)} \ {None}),
     avg_coherence_score |-> Round(Mean(Column(df, "coherence_score")), 2),
     avg_foundation_alignment |-> Round(Mean(Column(df, "foundation_alignment_score")), 2),
     scenario_types_covered |-> {df[i].scenario_type : i \in 1..Len(df)}]

(* An analysis with an entry for the empty label too *)
_analyze_cultural_patterns_every_label(df) ==
    LET cultures == {df[i].cultural_background : i \in 1..Len(df)} \ {None}
    IN [culture \in cultures |->
           LET culture_df == Rows(df, culture)
           IN [n_participants |-> Len(culture_df),
               response_quality |->
                   [coherence |-> Round(Mean(Column(culture_df, "coherence_score")), 2),
                    foundation_alignment |->
                        Round(Mean(Column(culture_df, "foundation_alignment_score")), 2)]]]

(* lines 59-83: one entry per culture of df['cultural_background'].unique() that is
   neither missing nor the empty label *)
_analyze_cultural_patterns(df) ==
    LET cultures == {df[i].cultural_background : i \in 1..Len(df)} \ {None, ""}
    IN [culture \in cultures |->
           LET culture_df == Rows(df, culture)
           IN [n_participants |-> Len(culture_df),
               response_quality |->
                   [coherence |-> Round(Mean(Column(culture_df, "coherence_score")), 2),
                    foundation_alignment |->
                        Round(Mean(Column(culture_df, "foundation_alignment_score")), 2)]]]

(* An analysis with an entry for every construct of the list *)
_analyze_psychological_constructs_every(df) ==
    LET construct_records(c) ==
            SelectSeq(df, LAMBDA r : \E k \in 1..Len(r.psychological_constructs_evident) :
                                        r.psychological_constructs_evident[k] = c)
    IN [c \in {ConstructNames[k] : k \in 1..Len(ConstructNames)} |->
           [frequency |-> Len(construct_records(c)),
            percentage |-> Round(Frac(Len(construct_records(c)) * 100, Len(df)), 1)]]

(* lines 85-110: one entry per construct that at least one record shows *)
_analyze_psychological_constructs(df) ==
    LET construct_records(c) ==
            SelectSeq(df, LAMBDA r : \E k \in 1..Len(r.psychological_constructs_evident) :
                                        r.psychological_constructs_evident[k] = c)
        found == {ConstructNames[k] : k \in 1..Len(ConstructNames)}
        present == {c \in found : Len(construct_records(c)) > 0}
    IN [c \in present |->
           [frequency |-> Len(construct_records(c)),
            percentage |-> Round(Frac(Len(construct_records(c)) * 100, Len(df)), 1)]]

(* lines 112-133: the counts of the high and the low coherence scores *)
_analyze_response_quality(df) ==
    [high_quality_responses |-> Len(SelectSeq(df, LAMBDA r : FLess(Frac(8, 10), r.coherence_score))),
     low_quality_responses |-> Len(SelectSeq(df, LAMBDA r : FLess(r.coherence_score, Frac(5, 10))))]

(* df.groupby('cultural_background')[column].mean().round(2).to_dict() *)
MeanByCulture(df, column) ==
    [c \in {GroupKeys(df)[k] : k \in 1..Len(GroupKeys(df))} |->
        Round(Mean(Column(Rows(df, c), column)), 2)]

(* lines 188-190: the bins and the labels of pd.cut *)
AgeBins == <<0, 18, 25, 35, 50, 100>>
AgeLabels == <<"Under 18", "18-25", "26-35", "36-50", "Over 50">>

(* pd.cut(df['age'], bins, labels): bin k is the interval (bins[k], bins[k+1]],
   open on the left and closed on the right; an age in no bin has no group *)
age_group(age) ==
    IF \E k \in 1..Len(AgeLabels) : AgeBins[k] < age /\ age <= AgeBins[k + 1]
    THEN AgeLabels[CHOOSE k \in 1..Len(AgeLabels) : AgeBins[k] < age /\ age <= AgeBins[k + 1]]
    ELSE NaN

(* The float NaN among the fractions: the mean of a group without rows *)
NaNScore == <<0, 0>>

(* lines 184-192: the rounded mean of a column in each age group.  The pandas that
   raises on idxmax of all-NA (3.0) is the one that groups a categorical by its
   observed categories only; before it every label is a key, and the mean of a
   label without rows is NaN *)
_group_by_age(df, column, all_na_raises) ==
    LET labels == {AgeLabels[k] : k \in 1..Len(AgeLabels)}
        rows(g) == SelectSeq(df, LAMBDA r : age_group(r.age) = g)
        values(rs) == IF column = "response_length_words" THEN CountColumn(rs, column)
                      ELSE Column(rs, column)
    IN [g \in IF all_na_raises THEN {l \in labels : rows(l) # <<>>} ELSE labels |->
           IF rows(g) = <<>> THEN NaNScore ELSE Round(Mean(values(rows(g))), 2)]

(* lines 135-152: the by_culture entry of each pattern, and the trust by age *)
_analyze_behavioral_patterns(df, all_na_raises) ==
    [trust_patterns |-> [by_culture |-> MeanByCulture(df, "trust_level"),
                         by_age_group |-> _group_by_age(df, "trust_level", all_na_raises)],
     help_seeking_patterns |-> [by_culture |-> MeanByCulture(df, "help_seeking_tendency")],
     authority_patterns |-> [by_culture |-> MeanByCulture(df, "authority_deference")]]

(* The sample variance of a group's alignment scores, (n sum(x^2) - sum(x)^2) over
   n (n - 1): Series.std() orders the groups as the variance does *)
Variance(rows) ==
    LET n == Len(rows)
        x == Column(rows, "foundation_alignment_score")
        sq == [i \in 1..n |-> Frac(x[i][1] * x[i][1], x[i][2] * x[i][2])]
        s == FSum(x)
        nsq == FSum(sq)
    IN Frac(n * nsq[1] * s[2] * s[2] - s[1] * s[1] * nsq[2], nsq[2] * s[2] * s[2] * n * (n - 1))

(* Series.idxmax(): the first label, in group order, of the largest value *)
IdxMax(keys, value) ==
    keys[CHOOSE i \in 1..Len(keys) :
            /\ \A j \in 1..Len(keys) : FLeq(value[keys[j]], value[keys[i]])
            /\ \A j \in 1..(i - 1) : FLess(value[keys[j]], value[keys[i]])]

(* lines 215-216.  idxmax of no group raises; the standard deviation of a group of
   one record is missing, and idxmax of nothing but missing values is NaN or
   raises, as the installed pandas decides (all_na_raises) *)
_analyze_alignment_trends(df, all_na_raises) ==
    LET keys == GroupKeys(df)
        measured == SelectSeq(keys, LAMBDA c : Len(Rows(df, c)) > 1)
    IN IF keys = <<>> THEN [exception |-> "ValueError"]
       ELSE IF measured = <<>> /\ all_na_raises THEN [exception |-> "ValueError"]
       ELSE [best_aligned_culture |->
                 IdxMax(keys, [c \in {keys[k] : k \in 1..Len(keys)} |->
                                  Mean(Column(Rows(df, c), "foundation_alignment_score"))]),
             most_variable_culture |->
                 IF measured = <<>> THEN NaN
                 ELSE IdxMax(measured, [c \in {measured[k] : k \in 1..Len(measured)} |->
                                           Variance(Rows(df, c))])]

(* lines 154-164 *)
_analyze_foundation_alignment(df, all_na_raises) ==
    LET alignment_trends == _analyze_alignment_trends(df, all_na_raises)
    IN IF "exception" \in DOMAIN alignment_trends THEN alignment_trends
       ELSE [overall_alignment |-> Round(Mean(Column(df, "foundation_alignment_score")), 2),
             low_alignment_cases |->
                 Len(SelectSeq(df, LAMBDA r : FLess(r.foundation_alignment_score, Frac(5, 10)))),
             high_alignment_cases |->
                 Len(SelectSeq(df, LAMBDA r : FLess(Frac(8, 10), r.foundation_alignment_score))),
             alignment_trends |-> alignment_trends]

(* lines 166-182: the groups of each grouping *)
_analyze_demographic_patterns(df, all_na_raises) ==
    [age_patterns |->
         [response_length_by_age |-> _group_by_age(df, "response_length_words", all_na_raises),
          trust_by_age |-> _group_by_age(df, "trust_level", all_na_raises)],
     genders |-> {df[i].gender : i \in 1..Len(df)},
     proficiencies |-> {df[i].english_proficiency : i \in 1..Len(df)},
     languages |-> {df[i].native_language : i \in 1..Len(df)}]

(* Recommendations that take a hundred records for an adequate sample *)
_generate_recommendations_at_hundred(df) ==
    <<IF FLess(Frac(7, 10), Mean(Column(df, "coherence_score")))
      THEN "High response quality suggests simulation is suitable for research use"
      ELSE "Consider improving agent prompts to increase response coherence",
      IF Cardinality({df[i].cultural_background : i \in 1..Len(df)} \ {None}) >= 4
      THEN "Good cultural diversity achieved for cross-cultural research"
      ELSE "Consider adding more cultural backgrounds for comprehensive diversity",
      IF FLess(Frac(6, 10), Mean(Column(df, "foundation_alignment_score")))
      THEN "Strong foundation alignment validates theoretical consistency"
      ELSE "Review foundation document integration to improve theoretical alignment",
      IF Len(df) >= 100
      THEN "Sample size adequate for statistical analysis"
      ELSE "Consider increasing sample size for more robust statistical analysis">>

(* lines 219-248 *)
_generate_recommendations(df) ==
    <<IF FLess(Frac(7, 10), Mean(Column(df, "coherence_score")))
      THEN "High response quality suggests simulation is suitable for research use"
      ELSE "Consider improving agent prompts to increase response coherence",
      IF Cardinality({df[i].cultural_background : i \in 1..Len(df)} \ {None}) >= 4
      THEN "Good cultural diversity achieved for cross-cultural research"
      ELSE "Consider adding more cultural backgrounds for comprehensive diversity",
      IF FLess(Frac(6, 10), Mean(Column(df, "foundation_alignment_score")))
      THEN "Strong foundation alignment validates theoretical consistency"
      ELSE "Review foundation document integration to improve theoretical alignment",
      IF Len(df) > 100
      THEN "Sample size adequate for statistical analysis"
      ELSE "Consider increasing sample size for more robust statistical analysis">>

SectionNames ==
    {"summary", "cultural_analysis", "psychological_constructs", "response_quality",
     "behavioral_patterns", "foundation_alignment", "demographic_insights", "recommendations"}

(* lines 30-39: the eight sections computed from one DataFrame df; an exception of
   a section is the exception of the call *)
Sections(df, all_na_raises) ==
    LET foundation_alignment == _analyze_foundation_alignment(df, all_na_raises)
    IN IF "exception" \in DOMAIN foundation_alignment THEN foundation_alignment
       ELSE [summary |-> _generate_summary_statistics(df),
             cultural_analysis |-> _analyze_cultural_patterns(df),
             psychological_constructs |-> _analyze_psychological_constructs(df),
             response_quality |-> _analyze_response_quality(df),
             behavioral_patterns |-> _analyze_behavioral_patterns(df, all_na_raises),
             foundation_alignment |-> foundation_alignment,
             demographic_insights |-> _analyze_demographic_patterns(df, all_na_raises),
             recommendations |-> _generate_recommendations(df)]

(* An analyzer that tells the empty data set by both logs, and computes the
   sections of a DataFrame without columns otherwise *)
generate_comprehensive_analysis_both_logs(records, surveys, all_na_raises) ==
    IF records = <<>> /\ surveys = <<>> THEN [error |-> "No interaction records to analyze"]
    ELSE IF records = <<>> THEN [exception |-> "KeyError"]
    ELSE Sections(records, all_na_raises)

(* lines 21-41, run without interruption on the records the analyzer refers to *)
generate_comprehensive_analysis(records, surveys, all_na_raises) ==
    IF records = <<>> THEN [error |-> "No interaction records to analyze"]
    ELSE Sections(records, all_na_raises)

(* The time stamps of the runs, in the order of the strings *)
TimestampOrder == <<"now", "t1", "t2">>

(* A summary that counts every record as an agent of its own *)
get_summary_statistics_per_record(records) ==
    IF records = <<>> THEN [error |-> "No data collected yet"]
    ELSE [total_interactions |-> Len(records),
          unique_agents |-> Len(records)]

(* lines 362-379 *)
get_summary_statistics(records) ==
    IF records = <<>> THEN [error |-> "No data collected yet"]
    ELSE [total_interactions |-> Len(records),
          unique_agents |-> Cardinality({records[i].agent_id : i \in 1..Len(records)}),
          cultural_diversity |->
              Cardinality({records[i].cultural_background : i \in 1..Len(records)} \ {None}),
          avg_response_length |->
              Mean(CountColumn(records, "response_length_words")),
          avg_coherence |-> Mean(Column(records, "coherence_score")),
          avg_foundation_alignment |-> Mean(Column(records, "foundation_alignment_score")),
          scenario_types |-> {records[i].scenario_type : i \in 1..Len(records)},
          date_range |->
              LET stamps == {records[i].timestamp : i \in 1..Len(records)}
                  at(t) == CHOOSE k \in 1..Len(TimestampOrder) : TimestampOrder[k] = t
              IN <<CHOOSE t \in stamps : \A u \in stamps : at(t) <= at(u),
                   CHOOSE t \in stamps : \A u \in stamps : at(u) <= at(t)>>]

(* ------------------------------- export ------------------------------- *)
(* An export that writes both tables whatever the logs hold *)
Attempted_both_tables(records, surveys) ==
    <<"complete_json", "interactions_csv", "surveys_csv", "excel_analysis", "research_report">>

(* The artifacts export_comprehensive_dataset writes, in the order it writes
   them (lines 317, 324, 329, 334, 357); a table is written only for a
   DataFrame that is not empty *)
Attempted(records, surveys) ==
    <<"complete_json">>
    \o (IF records # <<>> THEN <<"interactions_csv">> ELSE <<>>)
    \o (IF surveys # <<>> THEN <<"surveys_csv">> ELSE <<>>)
    \o <<"excel_analysis", "research_report">>

(* A report writer that also falls back to the degraded template when the
   analysis covers a single interaction *)
generate_research_report_small_sample(analysis_results) ==
    IF "error" \in DOMAIN analysis_results THEN "degraded"
    ELSE IF analysis_results.summary.total_interactions < 2 THEN "degraded"
    ELSE "normal"

(* generate_research_report, lines 254 and 284: which template is rendered *)
generate_research_report(analysis_results) ==
    IF "error" \in DOMAIN analysis_results THEN "degraded" ELSE "normal"

(* The type of each field of InteractionRecord: what json.dump finds in it *)
FieldKind ==
    [f \in {"timestamp", "agent_id", "interaction_type", "scenario_name", "scenario_type",
            "prompt_text", "context", "task_description", "cultural_background", "gender",
            "native_language", "english_proficiency", "socioeconomic_status",
            "emotional_state"} |-> "str"]
    @@ [f \in {"raw_response"} |-> "text"]
    @@ [f \in {"response_length_words", "response_length_chars", "age"} |-> "int"]
    @@ [f \in {"trust_level", "help_seeking_tendency", "authority_deference", "privacy_concern",
               "coherence_score", "cultural_consistency_score",
               "foundation_alignment_score"} |-> "float"]
    @@ [f \in {"question_types_asked", "response_categories",
               "psychological_constructs_evident"} |-> "list"]

(* A dump that writes every float with two decimals *)
json_dump_rounded(kind, v) ==
    CASE kind = "str" -> IF v = None THEN [json |-> "null"] ELSE [json |-> "string", chars |-> v]
      [] kind = "text" -> [json |-> "string", chars |-> v]
      [] kind = "int" -> [json |-> "number", integer |-> TRUE, value |-> v]
      [] kind = "float" -> [json |-> "number", integer |-> FALSE, value |-> Round(v, 2)]
      [] kind = "list" ->
            [json |-> "array", items |-> [i \in 1..Len(v) |-> [json |-> "string", chars |-> v[i]]]]

(* json.dump of one value, line 318: None is written as null, a string as a JSON
   string, an int as its digits, a float as the shortest literal that reads back
   as the same float, a list of strings as an array of JSON strings *)
json_dump(kind, v) ==
    CASE kind = "str" -> IF v = None THEN [json |-> "null"] ELSE [json |-> "string", chars |-> v]
      [] kind = "text" -> [json |-> "string", chars |-> v]
      [] kind = "int" -> [json |-> "number", integer |-> TRUE, value |-> v]
      [] kind = "float" -> [json |-> "number", integer |-> FALSE, value |-> v]
      [] kind = "list" ->
            [json |-> "array", items |-> [i \in 1..Len(v) |-> [json |-> "string", chars |-> v[i]]]]

(* json.load of one value: what a JSON value reads back as, whatever field it is in *)
json_load(j) ==
    CASE j.json = "null" -> None
      [] j.json = "string" -> j.chars
      [] j.json = "number" -> j.value
      [] j.json = "array" -> [i \in 1..Len(j.items) |-> j.items[i].chars]

(* asdict(record) as json.dump writes it, line 312, and the object read back *)
dump_record(record) == [f \in DOMAIN record |-> json_dump(FieldKind[f], record[f])]

load_record(object) == [f \in DOMAIN object |-> json_load(object[f])]

(* lines 305-315: the dump, its interaction records as the JSON values of the file *)
complete_data(records, surveys, analysis_results) ==
    [metadata |->
        [total_interactions |-> Len(records),
         total_surveys |-> Len(surveys),
         unique_agents |-> Cardinality({records[i].agent_id : i \in 1..Len(records)})],
     interaction_records |-> [i \in 1..Len(records) |-> dump_record(records[i])],
     survey_responses |-> surveys,
     analysis_results |-> analysis_results]

(* What one artifact file holds *)
Content(artifact, records, surveys, analysis_results) ==
    CASE artifact = "complete_json" -> complete_data(records, surveys, analysis_results)
      [] artifact = "interactions_csv" -> records
      [] artifact = "surveys_csv" -> surveys
      [] artifact = "excel_analysis" ->
            [Interactions |-> IF records # <<>> THEN "rows" ELSE "note",
             Surveys |-> IF surveys # <<>> THEN "rows" ELSE "note",
             Analysis_Summary |->
                 IF "summary" \in DOMAIN analysis_results /\ "error" \notin DOMAIN analysis_results
                 THEN "rows" ELSE "note"]
      [] artifact = "research_report" -> generate_research_report(analysis_results)

(* An export that catches a refused write, skips that artifact and returns the
   map of the others *)
export_comprehensive_dataset_skipping(records, surveys, analysis_results, fail) ==
    LET writes == Attempted(records, surveys)
        failed == {i \in 1..Len(writes) : writes[i] = fail}
        files_created == {writes[i] : i \in 1..Len(writes)} \ {fail}
    IN IF "exception" \in DOMAIN analysis_results
       THEN [raised |-> TRUE, write_error |-> "none", files_created |-> {}, written |-> <<>>]
       ELSE [raised |-> FALSE,
             write_error |-> IF failed # {} THEN fail ELSE "none",
             files_created |-> files_created,
             written |-> [a \in files_created |-> Content(a, records, surveys, analysis_results)]]

(* lines 300-360, run without interruption, after line 298 has given
   analysis_results.  fail is the artifact whose write the file system refuses
   ("none": it refuses nothing).  The call raises at the analysis or at the first
   refused write, which no handler encloses; the files written before stay. *)
export_comprehensive_dataset(records, surveys, analysis_results, fail) ==
    LET writes == Attempted(records, surveys)
        failed == {i \in 1..Len(writes) : writes[i] = fail}
        done == IF failed = {} THEN Len(writes) ELSE (CHOOSE i \in failed : TRUE) - 1
        files_created == {writes[i] : i \in 1..done}
    IN IF "exception" \in DOMAIN analysis_results
       THEN [raised |-> TRUE, write_error |-> "none", files_created |-> {}, written |-> <<>>]
       ELSE [raised |-> failed # {},
             write_error |-> IF failed # {} THEN fail ELSE "none",
             files_created |-> files_created,
             written |-> [a \in files_created |-> Content(a, records, surveys, analysis_results)]]

(* lines 304, 323, 328, 333 and 356: the path of the file of an artifact, in the
   collector's output directory (line 62); timestamp is now.strftime(...) *)
output_dir == "./simulation_data"

file_path(filename_prefix, artifact, timestamp) ==
    [directory |-> output_dir,
     name |-> CASE artifact = "complete_json" -> <<filename_prefix, "_complete_", timestamp, ".json">>
                [] artifact = "interactions_csv" -> <<filename_prefix, "_interactions_", timestamp, ".csv">>
                [] artifact = "surveys_csv" -> <<filename_prefix, "_surveys_", timestamp, ".csv">>
                [] artifact = "excel_analysis" -> <<filename_prefix, "_analysis_", timestamp, ".xlsx">>
                [] artifact = "research_report" -> <<filename_prefix, "_report_", timestamp, ".md">>]

(* --------------------------- inputs of the runs ----------------------- *)
(* datetime.now().isoformat() *)
Now == "now"

Text1 == <<"I", "think", "we", "trust", "this", "partner", "because", "it", "works", ".">>
Text2 == <<"why", "?">>
Text3 == <<"we", "support", "privacy", "together", "and", "I", "believe", "it", ".", "ok">>

ProfileFull ==
    [culture |-> "US_Individualistic", age |-> 20, gender |-> "female", language |-> "English",
     english_proficiency |-> "Native", ses |-> "Middle", mood |-> "Curious",
     trust |-> Frac(3, 5), help_seeking |-> Frac(1, 2), authority_deference |-> Frac(2, 5),
     privacy_concern |-> Frac(7, 10)]

(* The calls of record_agent_interaction a caller of the collector makes, each an
   agent id and a payload: a full payload; one with neither time stamp nor profile
   summary; one whose profile summary lacks fields and whose culture is not a
   string, on which the scorer raises; one with blank text *)
CallFull ==
    <<"a1", [timestamp |-> "t1", student_response |-> Text1, profile_summary |-> ProfileFull,
             scenario_context |-> "calculus", scenario_type |-> "cognitive_partnership",
             task |-> "derivative"]>>

CallBare == <<"a2", [student_response |-> Text2]>>

CallNoCulture ==
    <<"a3", [timestamp |-> "t2", student_response |-> Text3,
             profile_summary |-> [culture |-> None, age |-> 17]]>>

CallBlank ==
    <<"a1", [timestamp |-> "t2", student_response |-> <<WS>>,
             profile_summary |-> [culture |-> "East_Asian_Collectivistic", trust |-> Frac(4, 5)]]>>

Calls == {CallFull, CallBare, CallNoCulture}

(* The texts and the profiles the scorer is called with: blank texts, the text
   of the worked example, a text of full stops only, texts whose counts pass the
   caps of the scores; a profile a culture branch and a proficiency label, one
   with labels that are in no table, one without either key, one whose culture is
   not a string *)
TextExample ==
    <<"I", "think", "this", "is", "correct", ".", "I", "believe", "it", "works", ".",
      "However", ",", "I", "would", "verify", ".">>

TextDots == <<".", WS, ".">>

TextUnsure == <<"we", "unsure", WS, "?", "!">>

TextMany == <<"my", "my", "my", "my", "my", "my", "my", "my", "my">>

TextCapped ==
    <<"I", "think", "I", "think", "I", "think", "I", "think", "and", "and", "and", "and",
      "and", "and", "we">>

TextFamily == <<"I", "trust", "my", "family", "and", "our", "partner">>

Responses ==
    {<<>>, <<WS, WS>>, TextExample, TextDots, TextUnsure, TextMany, TextCapped, TextFamily,
     Text1, Text2, Text3}

ProfileBalanced == [culture |-> "European_Balanced", english_proficiency |-> "Intermediate"]

ProfileCollectivistic == [culture |-> "East_Asian_Collectivistic", english_proficiency |-> "Beginner"]

Profiles ==
    {[culture |-> "US_Individualistic", english_proficiency |-> "Native"],
     ProfileCollectivistic,
     ProfileBalanced,
     [culture |-> "Latin_American", english_proficiency |-> "Fluent"],
     [age |-> 19],
     [culture |-> None, english_proficiency |-> "Advanced"]}

(* A text that scores above both thresholds of the recommendations: one sentence
   of more than four tokens, three first-person phrases, one connective, and four
   of the six terms of each foundation source *)
TextStrong ==
    <<"I", "think", "I", "believe", "I", "would", "trust", "this", "partner", "because",
      "collaboration", "amplify", "transparency", "privacy", "ethical", "explainable",
      "training", "support", "diversity", "adaptive">>

(* Logs of many records: the records of calls with one text by agents of the
   cultures of a list in turn.  The lists have one, three, four and five distinct
   labels, the empty label of a profile without a culture among them, and three
   labels beside a culture that is not a string. *)
SampleTexts == {TextStrong, TextExample}

CultureLists ==
    {<<"US_Individualistic">>,
     <<"US_Individualistic", "East_Asian_Collectivistic", "European_Balanced">>,
     <<"US_Individualistic", "East_Asian_Collectivistic", "European_Balanced", "Latin_American">>,
     <<"US_Individualistic", "East_Asian_Collectivistic", "European_Balanced", "">>,
     <<"US_Individualistic", "East_Asian_Collectivistic", "European_Balanced", None>>,
     <<"US_Individualistic", "East_Asian_Collectivistic", "European_Balanced", "Latin_American",
       "">>}

SampleSizes == {2, 8, 100, 101}

SampleCall(text, culture) ==
    <<"a1", [student_response |-> text,
             profile_summary |-> IF culture = "" THEN [age |-> 19] ELSE [culture |-> culture, age |-> 19]]>>

(* Calls of record_agent_interaction that differ in the agent, the time stamp and
   the scenario but not in text and profile; one with another profile, one with
   another text *)
ScoreCallFirst ==
    <<"a1", [timestamp |-> "t1", student_response |-> TextExample,
             profile_summary |-> ProfileBalanced, scenario_context |-> "calculus",
             scenario_type |-> "cognitive_partnership", task |-> "derivative"]>>

ScoreCallSecond == <<"a2", [student_response |-> TextExample, profile_summary |-> ProfileBalanced]>>

ScoreCallOtherProfile ==
    <<"a1", [timestamp |-> "t1", student_response |-> TextExample,
             profile_summary |-> ProfileCollectivistic, scenario_context |-> "calculus",
             scenario_type |-> "cognitive_partnership", task |-> "derivative"]>>

ScoreCallOtherText ==
    <<"a2", [timestamp |-> "t2", student_response |-> TextUnsure, profile_summary |-> ProfileBalanced]>>

ScoreCalls ==
    {ScoreCallFirst, ScoreCallSecond, ScoreCallOtherProfile, ScoreCallOtherText, CallNoCulture, CallBlank}

SurveyCalls ==
    {<<"a1", [timestamp |-> "t1", survey_type |-> "co_thinking_effectiveness",
              survey_responses |-> Text1, profile_context |-> "p1"]>>}

(* The orchestrator's agents, in the order of self.agents, and what each one's
   profile gives interact_with_ai_tutor (lines 187-197) *)
Agents == <<"s1", "s2">>

AgentProfile(agent) ==
    IF agent = "s1"
    THEN [culture |-> "European_Balanced", age |-> 22, language |-> "German",
          english_proficiency |-> "Fluent", ses |-> "High", mood |-> "Positive",
          stress |-> Frac(1, 5), confidence |-> Frac(4, 5), trust |-> Frac(1, 2)]
    ELSE [culture |-> "Latin_American", age |-> 18, language |-> "Spanish",
          english_proficiency |-> "Intermediate", ses |-> "Low", mood |-> "Stressed",
          stress |-> Frac(4, 5), confidence |-> Frac(2, 5), trust |-> Frac(3, 10)]

(* response.text of a generation that succeeds *)
AgentText(agent) == IF agent = "s1" THEN Text3 ELSE Text2

Scenario ==
    [name |-> "Cross-Cultural Math Problem Solving", type |-> "cognitive_partnership",
     context |-> "calculus", learning_task |-> "derivative", ai_tutor_response |-> "power rule"]

(* The file system refuses the write of one artifact, or of none *)
WriteFailures ==
    {"none", "complete_json", "interactions_csv", "surveys_csv", "excel_analysis", "research_report"}

(* ------------------------------ orchestrator -------------------------- *)
(* agent_system.py lines 177-204: the payload, or the error entry when
   generate_content raised *)
interact_with_ai_tutor(agent, scenario, generated, now) ==
    IF generated
    THEN [timestamp |-> now,
          scenario_context |-> scenario.context,
          task |-> scenario.learning_task,
          ai_input |-> scenario.ai_tutor_response,
          student_response |-> AgentText(agent),
          agent_id |-> agent,
          profile_summary |-> AgentProfile(agent)]
    ELSE [error |-> "generation failed", agent_id |-> agent]

(* A loop that an agent's failed generation ends: no agent after it is called *)
Turn_aborting(k, scenario, generated, now, before) ==
    LET result == interact_with_ai_tutor(Agents[k], scenario, generated[k], now)
        typed == [x \in DOMAIN result \cup {"scenario_type"} |->
                     IF x = "scenario_type" THEN scenario.type ELSE result[x]]
    IN IF \E j \in 1..(k - 1) : ~generated[j] THEN before
       ELSE IF "error" \notin DOMAIN result
       THEN [results |-> Append(before.results, typed),
             recorded |-> Append(before.recorded,
                                 InteractionRecord(Agents[k], typed, now, response_analysis(typed)))]
       ELSE [results |-> Append(before.results, result), recorded |-> before.recorded]

(* One turn of the loop of run_co_thinking_scenario, lines 288-310, for agent k
   after the turns before it left `before`: the result is appended to the results
   whatever it is, and recorded unless it is an error entry *)
Turn(k, scenario, generated, now, before) ==
    LET result == interact_with_ai_tutor(Agents[k], scenario, generated[k], now)
        typed == [x \in DOMAIN result \cup {"scenario_type"} |->
                     IF x = "scenario_type" THEN scenario.type ELSE result[x]]
    IN IF "error" \notin DOMAIN result
       THEN [results |-> Append(before.results, typed),
             recorded |-> Append(before.recorded,
                                 InteractionRecord(Agents[k], typed, now, response_analysis(typed)))]
       ELSE [results |-> Append(before.results, result), recorded |-> before.recorded]

(* The loop up to agent k: the results list, and the records the data collector
   appended to its log, in that order.  generated[i] tells whether agent i's
   generate_content call returned. *)
RECURSIVE RunAgents(_, _, _, _)
RunAgents(k, scenario, generated, now) ==
    IF k = 0 THEN [results |-> <<>>, recorded |-> <<>>]
    ELSE Turn(k, scenario, generated, now, RunAgents(k - 1, scenario, generated, now))

(* What each call of Calls records, and what each outcome of the generation calls
   makes of a scenario run: tables, evaluated once (@@ makes TLC build the table
   instead of keeping the rule) *)
Recorded ==
    [c \in Calls \cup {CallBlank} \cup ScoreCalls |->
        InteractionRecord(c[1], c[2], Now, response_analysis(c[2]))] @@ <<>>

SampleRecord ==
    [input \in SampleTexts \X UNION {{cultures[k] : k \in 1..Len(cultures)} : cultures \in CultureLists} |->
        LET call == SampleCall(input[1], input[2])
        IN InteractionRecord(call[1], call[2], Now, response_analysis(call[2]))] @@ <<>>

SampleLog(text, cultures, n) ==
    [i \in 1..n |-> SampleRecord[<<text, cultures[((i - 1) % Len(cultures)) + 1]>>]]

SampleLogs ==
    {SampleLog(text, cultures, n) : text \in SampleTexts, cultures \in CultureLists, n \in SampleSizes}

Analyzed ==
    [input \in Responses \X Profiles |-> analyze_response(input[1], input[2], <<>>)] @@ <<>>

(* The call that records a survey of one text *)
SurveyCall(response) == <<"a1", [survey_responses |-> response]>>

Surveyed ==
    [c \in SurveyCalls \cup {SurveyCall(response) : response \in Responses} |->
        SurveyRecord(c[1], c[2], Now)] @@ <<>>

Runs ==
    [generated \in [1..Len(Agents) -> BOOLEAN] |-> RunAgents(Len(Agents), Scenario, generated, Now)]
        @@ <<>>

(* -------------------------------- state ------------------------------- *)
VARIABLES
    interaction_records,   \* ComprehensiveDataCollector.interaction_records
    survey_responses,      \* ComprehensiveDataCollector.survey_responses
    simulation_data,       \* ResearchSimulationOrchestrator.simulation_data
    all_na_raises,         \* whether the installed pandas raises on idxmax of all-NA
    last_op,               \* the operation called last
    args,                  \* what it was called with
    raised,                \* whether that call raised
    ret,                   \* what it returned, or its exception
    written,               \* the artifacts that call wrote, with what each holds
    write_error,           \* the artifact whose write the file system refused in it
    last_report,           \* the first and the latest report computed since the logs changed
    pc,                    \* where each thread is in the call it runs
    pending,               \* the record each producer thread is building
    start_log,             \* the interaction log when the reader's call began
    df,                    \* the rows the reader's call has read
    report,                \* what the reader's call returned
    dump                   \* the complete data the exporting thread builds, and writes

(* what a call leaves to its caller *)
outcome == <<last_op, args, raised, ret, written, write_error, last_report>>

(* the threads' own state *)
threads == <<pc, pending, start_log, df, report, dump>>

vars ==
    <<interaction_records, survey_responses, simulation_data, all_na_raises, outcome, threads>>

Producers == {"p1", "p2"}

Reader == "r"

(* the call each producer thread makes *)
CallOf == [p \in Producers |-> IF p = "p1" THEN CallFull ELSE CallBlank]

Init ==
    /\ interaction_records = <<>>
    /\ survey_responses = <<>>
    /\ simulation_data = <<>>
    /\ all_na_raises \in BOOLEAN
    /\ last_op = "init"
    /\ args = <<>>
    /\ raised = FALSE
    /\ ret = <<>>
    /\ written = <<>>
    /\ write_error = "none"
    /\ last_report = <<>>
    /\ pc = [t \in Producers \cup {Reader} |-> "idle"]
    /\ pending = [p \in Producers |-> <<>>]
    /\ start_log = <<>>
    /\ df = <<>>
    /\ report = <<>>
    /\ dump = <<>>

(* ------------------------------- actions ------------------------------ *)
(* The report of a call of the analyzer, kept beside the first one computed since
   the logs last changed *)
Reported(analysis) ==
    IF last_report = <<>> THEN <<analysis>> ELSE <<last_report[1], analysis>>

(* A collector that puts the new record first *)
record_agent_interaction_first(call) ==
    /\ Len(interaction_records) < MaxLog
    /\ interaction_records' = <<Recorded[call]>> \o interaction_records
    /\ ret' = Recorded[call]
    /\ raised' = FALSE
    /\ last_op' = "record_agent_interaction"
    /\ args' = call
    /\ written' = <<>>
    /\ write_error' = "none"
    /\ last_report' = <<>>
    /\ UNCHANGED <<survey_responses, simulation_data, all_na_raises, threads>>

(* data_collection.py lines 85-163 *)
record_agent_interaction(call) ==
    /\ Len(interaction_records) < MaxLog
    /\ interaction_records' = Append(interaction_records, Recorded[call])
    /\ ret' = Recorded[call]
    /\ raised' = FALSE
    /\ last_op' = "record_agent_interaction"
    /\ args' = call
    /\ written' = <<>>
    /\ write_error' = "none"
    /\ last_report' = <<>>
    /\ UNCHANGED <<survey_responses, simulation_data, all_na_raises, threads>>

(* A recorder that starts the interaction log anew with every survey *)
record_survey_response_resetting(call) ==
    /\ Len(survey_responses) < MaxSurveys
    /\ survey_responses' = Append(survey_responses, Surveyed[call])
    /\ interaction_records' = <<>>
    /\ ret' = Surveyed[call]
    /\ raised' = FALSE
    /\ last_op' = "record_survey_response"
    /\ args' = call
    /\ written' = <<>>
    /\ write_error' = "none"
    /\ last_report' = <<>>
    /\ UNCHANGED <<simulation_data, all_na_raises, threads>>

(* data_collection.py lines 165-179 *)
record_survey_response(call) ==
    /\ Len(survey_responses) < MaxSurveys
    /\ survey_responses' = Append(survey_responses, Surveyed[call])
    /\ ret' = Surveyed[call]
    /\ raised' = FALSE
    /\ last_op' = "record_survey_response"
    /\ args' = call
    /\ written' = <<>>
    /\ write_error' = "none"
    /\ last_report' = <<>>
    /\ UNCHANGED <<interaction_records, simulation_data, all_na_raises, threads>>

(* An analyzer that keeps what the summary call before it computed, and reports
   from that *)
GenerateComprehensiveAnalysis_cached ==
    LET analysis == IF last_op = "get_summary_statistics" THEN [summary |-> ret]
                    ELSE generate_comprehensive_analysis(interaction_records, survey_responses,
                                                         all_na_raises)
    IN /\ ret' = analysis
       /\ raised' = ("exception" \in DOMAIN analysis)
       /\ last_op' = "generate_comprehensive_analysis"
       /\ args' = <<>>
       /\ written' = <<>>
       /\ write_error' = "none"
       /\ last_report' = Reported(analysis)
       /\ UNCHANGED <<interaction_records, survey_responses, simulation_data, all_na_raises, threads>>

(* data_analyzer.py lines 17-41, on a DataAnalyzer made for the call *)
GenerateComprehensiveAnalysis ==
    LET analysis == generate_comprehensive_analysis(interaction_records, survey_responses, all_na_raises)
    IN /\ ret' = analysis
       /\ raised' = ("exception" \in DOMAIN analysis)
       /\ last_op' = "generate_comprehensive_analysis"
       /\ args' = <<>>
       /\ written' = <<>>
       /\ write_error' = "none"
       /\ last_report' = Reported(analysis)
       /\ UNCHANGED <<interaction_records, survey_responses, simulation_data, all_na_raises, threads>>

(* data_collection.py lines 362-379 *)
GetSummaryStatistics ==
    /\ ret' = get_summary_statistics(interaction_records)
    /\ raised' = FALSE
    /\ last_op' = "get_summary_statistics"
    /\ args' = <<>>
    /\ written' = <<>>
    /\ write_error' = "none"
    /\ UNCHANGED <<interaction_records, survey_responses, simulation_data, all_na_raises,
                   last_report, threads>>

(* data_collection.py lines 273-360, and agent_system.py lines 394-415, which
   exports, prints the summary and returns what the export returned *)
Exported(op, filename_prefix, analysis_results, fail) ==
    LET out == export_comprehensive_dataset(interaction_records, survey_responses, analysis_results, fail)
    IN /\ written' = out.written
       /\ ret' = IF out.raised THEN [exception |-> "raised"]
                 ELSE [a \in out.files_created |-> file_path(filename_prefix, a, Now)]
       /\ raised' = out.raised
       /\ last_op' = op
       /\ args' = filename_prefix
       /\ write_error' = out.write_error
       /\ last_report' = Reported(analysis_results)
       /\ UNCHANGED <<interaction_records, survey_responses, simulation_data, all_na_raises, threads>>

ExportComprehensiveDataset ==
    LET analysis_results ==
            generate_comprehensive_analysis(interaction_records, survey_responses, all_na_raises)
    IN \E fail \in WriteFailures :
          Exported("export_comprehensive_dataset", "co_thinking_data", analysis_results, fail)

(* the default of filename_prefix, and the file name the export test passes *)
FileNames == {"co_thinking_simulation", "validation_test_export.json"}

ExportSimulationData ==
    LET analysis_results ==
            generate_comprehensive_analysis(interaction_records, survey_responses, all_na_raises)
    IN \E fail \in WriteFailures, filename_prefix \in FileNames :
          Exported("export_simulation_data", filename_prefix, analysis_results, fail)

(* agent_system.py lines 283-322 *)
run_co_thinking_scenario(scenario, generated) ==
    LET run == Runs[generated]
        scenario_data == [scenario_name |-> scenario.name,
                          scenario_type |-> scenario.type,
                          timestamp |-> Now,
                          results |-> run.results]
    IN /\ Len(simulation_data) < MaxRuns
       /\ interaction_records' = interaction_records \o run.recorded
       /\ simulation_data' = Append(simulation_data, scenario_data)
       /\ ret' = scenario_data
       /\ raised' = FALSE
       /\ last_op' = "run_co_thinking_scenario"
       /\ args' = <<scenario, generated>>
       /\ written' = <<>>
       /\ write_error' = "none"
       /\ last_report' = IF run.recorded = <<>> THEN last_report ELSE <<>>
       /\ UNCHANGED <<survey_responses, all_na_raises, threads>>

RecordAgentInteraction == \E call \in Calls : record_agent_interaction(call)

RecordSurveyResponse == \E call \in SurveyCalls : record_survey_response(call)

RunScenario == \E generated \in [1..Len(Agents) -> BOOLEAN] : run_co_thinking_scenario(Scenario, generated)

(* The collector, called by one caller *)
Next ==
    \/ RecordAgentInteraction
    \/ RecordSurveyResponse
    \/ GenerateComprehensiveAnalysis
    \/ GetSummaryStatistics
    \/ ExportComprehensiveDataset

Spec == Init /\ [][Next]_vars

(* The orchestrator and the collector it owns *)
NextOrch ==
    \/ RunScenario
    \/ RecordSurveyResponse
    \/ ExportComprehensiveDataset
    \/ ExportSimulationData

SpecOrch == Init /\ [][NextOrch]_vars

(* The scorer called on its own, response_analyzer.py lines 29-45 *)
AnalyzeResponse ==
    \E input \in Responses \X Profiles :
        /\ ret' = Analyzed[input]
        /\ raised' = ("exception" \in DOMAIN Analyzed[input])
        /\ last_op' = "analyze_response"
        /\ args' = input
        /\ written' = <<>>
        /\ write_error' = "none"
        /\ UNCHANGED <<interaction_records, survey_responses, simulation_data, all_na_raises,
                       last_report, threads>>

RecordScored == \E call \in ScoreCalls : record_agent_interaction(call)

(* The scorer, and the collector that calls it *)
NextAnalyzer ==
    \/ AnalyzeResponse
    \/ RecordScored

SpecAnalyzer == Init /\ [][NextAnalyzer]_vars

(* The surveys of a collector: the quality of a survey text, assessed on its own
   and when the survey is recorded *)
AssessSurveyQuality ==
    \E response \in Responses :
        /\ ret' = _assess_survey_quality(response)
        /\ raised' = FALSE
        /\ last_op' = "_assess_survey_quality"
        /\ args' = response
        /\ written' = <<>>
        /\ write_error' = "none"
        /\ UNCHANGED <<interaction_records, survey_responses, simulation_data, all_na_raises,
                       last_report, threads>>

RecordSurveyText == \E response \in Responses : record_survey_response(SurveyCall(response))

NextSurvey ==
    \/ AssessSurveyQuality
    \/ RecordSurveyText

SpecSurvey == Init /\ [][NextSurvey]_vars

(* The analysis of a collector that has recorded many interactions *)
InitSample ==
    /\ interaction_records \in SampleLogs
    /\ survey_responses = <<>>
    /\ simulation_data = <<>>
    /\ all_na_raises \in BOOLEAN
    /\ last_op = "init"
    /\ args = <<>>
    /\ raised = FALSE
    /\ ret = <<>>
    /\ written = <<>>
    /\ write_error = "none"
    /\ last_report = <<>>
    /\ pc = [t \in Producers \cup {Reader} |-> "idle"]
    /\ pending = [p \in Producers |-> <<>>]
    /\ start_log = <<>>
    /\ df = <<>>
    /\ report = <<>>
    /\ dump = <<>>

NextSample ==
    \/ GenerateComprehensiveAnalysis
    \/ GetSummaryStatistics

SpecSample == InitSample /\ [][NextSample]_vars

(* ------------------- the collector driven by threads ------------------- *)
(* Threads call into one collector.  A switch of threads can fall between any two
   bytecodes, so a call is the steps below; list.append and the read of one list
   element are single steps of the interpreter. *)
fields_of_record == DOMAIN Recorded[CallFull]

(* The object the constructor call of lines 119-160 leaves in the local `record`:
   every argument is evaluated, then every field is set, on an object no other
   thread has a reference to *)
constructed(call) == Recorded[call]

InFlight == {p \in Producers : pc[p] # "idle"}

(* record_agent_interaction is called *)
Call(p) ==
    /\ pc[p] = "idle"
    /\ Len(interaction_records) + Cardinality(InFlight) < MaxLog
    /\ pc' = [pc EXCEPT ![p] = "score"]
    /\ pending' = [pending EXCEPT ![p] = <<>>]
    /\ UNCHANGED <<interaction_records, survey_responses, simulation_data, all_na_raises,
                   outcome, start_log, df, report, dump>>

(* lines 93-116: the payload is read and scored, into locals *)
Score(p) ==
    /\ pc[p] = "score"
    /\ pc' = [pc EXCEPT ![p] = "construct"]
    /\ UNCHANGED <<interaction_records, survey_responses, simulation_data, all_na_raises,
                   outcome, pending, start_log, df, report, dump>>

(* A collector that appends the object before the scores and tags are set on it *)
Construct_publishing(p) ==
    /\ pc[p] = "construct"
    /\ interaction_records' =
           Append(interaction_records,
                  [f \in {"timestamp", "agent_id", "raw_response"} |-> constructed(CallOf[p])[f]])
    /\ pending' = [pending EXCEPT ![p] = constructed(CallOf[p])]
    /\ pc' = [pc EXCEPT ![p] = "append"]
    /\ UNCHANGED <<survey_responses, simulation_data, all_na_raises, outcome, start_log, df, report, dump>>

(* lines 119-160 *)
Construct(p) ==
    /\ pc[p] = "construct"
    /\ pending' = [pending EXCEPT ![p] = constructed(CallOf[p])]
    /\ pc' = [pc EXCEPT ![p] = "append"]
    /\ UNCHANGED <<interaction_records, survey_responses, simulation_data, all_na_raises,
                   outcome, start_log, df, report, dump>>

(* lines 162-163 *)
AppendRecord(p) ==
    /\ pc[p] = "append"
    /\ interaction_records' = Append(interaction_records, pending[p])
    /\ pc' = [pc EXCEPT ![p] = "idle"]
    /\ UNCHANGED <<survey_responses, simulation_data, all_na_raises, outcome,
                   pending, start_log, df, report, dump>>

(* generate_comprehensive_analysis is called on an analyzer that refers to the
   collector's list (data_collection.py line 297), and tests that list, lines 24-25 *)
ReaderCall ==
    /\ pc[Reader] = "idle"
    /\ start_log' = interaction_records
    /\ df' = <<>>
    /\ IF interaction_records = <<>>
       THEN /\ report' = <<[error |-> "No interaction records to analyze"]>>
            /\ pc' = pc
       ELSE /\ report' = <<>>
            /\ pc' = [pc EXCEPT ![Reader] = "read"]
    /\ UNCHANGED <<interaction_records, survey_responses, simulation_data, all_na_raises,
                   outcome, pending, dump>>

(* line 28: the comprehension walks the list the producers append to, one element
   a step, until it is past the end the list has then *)
ReaderRead ==
    /\ pc[Reader] = "read"
    /\ IF Len(df) < Len(interaction_records)
       THEN /\ df' = Append(df, interaction_records[Len(df) + 1])
            /\ pc' = pc
       ELSE /\ df' = df
            /\ pc' = [pc EXCEPT ![Reader] = "sections"]
    /\ UNCHANGED <<interaction_records, survey_responses, simulation_data, all_na_raises,
                   outcome, pending, start_log, report, dump>>

(* lines 30-41: every section is computed from the DataFrame of line 28 *)
ReaderSections ==
    /\ pc[Reader] = "sections"
    /\ report' = <<Sections(df, all_na_raises)>>
    /\ pc' = [pc EXCEPT ![Reader] = "idle"]
    /\ UNCHANGED <<interaction_records, survey_responses, simulation_data, all_na_raises,
                   outcome, pending, start_log, df, dump>>

NextConc ==
    \/ \E p \in Producers : Call(p)
    \/ \E p \in Producers : Score(p)
    \/ \E p \in Producers : Construct(p)
    \/ \E p \in Producers : AppendRecord(p)
    \/ ReaderCall
    \/ ReaderRead
    \/ ReaderSections

SpecConc == Init /\ [][NextConc]_vars

(* An export by the reader thread while the producers record.  The steps are the
   reads of the collector's list: a switch of threads can fall between any two *)

(* lines 276-279: export_comprehensive_dataset is called and builds interactions_df *)
ExportCall ==
    /\ pc[Reader] = "idle"
    /\ start_log' = interaction_records
    /\ df' = interaction_records
    /\ report' = <<>>
    /\ dump' = <<>>
    /\ pc' = [pc EXCEPT ![Reader] = "analysis"]
    /\ UNCHANGED <<interaction_records, survey_responses, simulation_data, all_na_raises,
                   outcome, pending>>

(* lines 297-298: the analysis of the list as it is then; an exception of the
   analysis is the exception of the export *)
ExportAnalysis ==
    /\ pc[Reader] = "analysis"
    /\ LET analysis_results ==
               generate_comprehensive_analysis(interaction_records, survey_responses, all_na_raises)
       IN /\ report' = <<analysis_results>>
          /\ pc' = [pc EXCEPT ![Reader] =
                        IF "exception" \in DOMAIN analysis_results THEN "idle" ELSE "metadata"]
    /\ UNCHANGED <<interaction_records, survey_responses, simulation_data, all_na_raises,
                   outcome, pending, start_log, df, dump>>

(* lines 306-311: the metadata, its counts those of the lists as they are then *)
ExportMetadata ==
    /\ pc[Reader] = "metadata"
    /\ dump' = [metadata |->
                   complete_data(interaction_records, survey_responses, report[1]).metadata]
    /\ pc' = [pc EXCEPT ![Reader] = "records"]
    /\ UNCHANGED <<interaction_records, survey_responses, simulation_data, all_na_raises,
                   outcome, pending, start_log, df, report>>

(* lines 312-319: the records of the list as it is then, and the dump written *)
ExportRecords ==
    /\ pc[Reader] = "records"
    /\ dump' = [key \in {"metadata", "interaction_records", "survey_responses", "analysis_results"} |->
                   IF key = "metadata" THEN dump.metadata
                   ELSE complete_data(interaction_records, survey_responses, report[1])[key]]
    /\ pc' = [pc EXCEPT ![Reader] = "idle"]
    /\ UNCHANGED <<interaction_records, survey_responses, simulation_data, all_na_raises,
                   outcome, pending, start_log, df, report>>

NextExport ==
    \/ \E p \in Producers : Call(p)
    \/ \E p \in Producers : Score(p)
    \/ \E p \in Producers : Construct(p)
    \/ \E p \in Producers : AppendRecord(p)
    \/ ExportCall
    \/ ExportAnalysis
    \/ ExportMetadata
    \/ ExportRecords

SpecExport == Init /\ [][NextExport]_vars

(* ------------------------------ properties ---------------------------- *)
IsPrefix(s, t) == Len(s) <= Len(t) /\ \A i \in 1..Len(s) : s[i] = t[i]

(* C1: the interaction log is append-only.  Whatever call of the collector is
   made, the log before it is a prefix of the log after it, and a call of
   record_agent_interaction makes the log exactly one record longer, the new
   record being the last one and the one the call returns. *)
C1_AppendOnly ==
    [][/\ IsPrefix(interaction_records, interaction_records')
       /\ last_op' = "record_agent_interaction"
              => interaction_records' = Append(interaction_records, ret')
       /\ last_op' # "record_agent_interaction"
              => interaction_records' = interaction_records]_vars

C1_Witness ==
    /\ last_op = "record_agent_interaction"
    /\ Len(interaction_records) = 2
    /\ interaction_records[1] # interaction_records[2]
    /\ interaction_records[2] = ret

(* The scorer raised on the payload of the call *)
ScorerFailed(interaction_data) ==
    "exception" \in DOMAIN analyze_response(Get(interaction_data, "student_response", <<>>),
                                           Get(interaction_data, "profile_summary", <<>>),
                                           interaction_data)

(* C2: when the scorer raises in a call of record_agent_interaction, the call
   returns all the same, the record it returns is the last of the log, its three
   scores are 0.5 and its three tag lists are empty. *)
C2_ScorerFailureFallback ==
    (last_op = "record_agent_interaction" /\ ScorerFailed(args[2]))
        => /\ ~raised
           /\ interaction_records # <<>>
           /\ interaction_records[Len(interaction_records)] = ret
           /\ ret.coherence_score = FHalf
           /\ ret.cultural_consistency_score = FHalf
           /\ ret.foundation_alignment_score = FHalf
           /\ ret.question_types_asked = <<>>
           /\ ret.response_categories = <<>>
           /\ ret.psychological_constructs_evident = <<>>

C2_Witness ==
    /\ last_op = "record_agent_interaction"
    /\ ScorerFailed(args[2])
    /\ ~IsBlank(ret.raw_response)
    /\ ret.coherence_score = FHalf
    /\ interaction_records[Len(interaction_records)] = ret

(* The fields of a record that come from the profile summary: the field, the key
   of the summary, and what the claim calls the default of a text or a number *)
ProfileFields ==
    {<<"cultural_background", "culture", "">>, <<"gender", "gender", "">>,
     <<"native_language", "language", "">>, <<"english_proficiency", "english_proficiency", "">>,
     <<"socioeconomic_status", "ses", "">>, <<"emotional_state", "mood", "">>,
     <<"age", "age", 0>>, <<"trust_level", "trust", FZero>>,
     <<"help_seeking_tendency", "help_seeking", FZero>>,
     <<"authority_deference", "authority_deference", FZero>>,
     <<"privacy_concern", "privacy_concern", FZero>>}

(* C3: a call of record_agent_interaction returns a record whatever the profile
   summary of the payload lacks: a field whose key is missing, or all of them when
   there is no summary, is the empty string or zero, and a field whose key is
   there has the value of the summary. *)
C3_MissingProfileDefaults ==
    last_op = "record_agent_interaction"
        => /\ ~raised
           /\ \A f \in ProfileFields :
                 LET payload == args[2]
                     present == /\ "profile_summary" \in DOMAIN payload
                                /\ f[2] \in DOMAIN payload.profile_summary
                 IN ret[f[1]] = IF present THEN payload.profile_summary[f[2]] ELSE f[3]

C3_Witness ==
    /\ last_op = "record_agent_interaction"
    /\ "profile_summary" \in DOMAIN args[2]
    /\ DOMAIN args[2].profile_summary = {"culture", "age"}
    /\ ret.age = 17
    /\ ret.gender = ""
    /\ ret.trust_level = FZero

(* the entries of the results that are error entries *)
Failed(results) == {k \in 1..Len(results) : "error" \in DOMAIN results[k]}

(* C4: a scenario run returns one result an agent, in the order of the agents; the
   result of an agent whose generation failed is an error entry, and the log is
   made longer by the records of the other agents, in their order, and by nothing
   else: a failure neither ends the run nor leaves a record. *)
C4_RunContinuesAfterFailure ==
    [][last_op' = "run_co_thinking_scenario" =>
          LET results == ret'.results
              generated == args'[2]
              succeeded == SelectSeq(Agents, LAMBDA a :
                               \E k \in 1..Len(Agents) : Agents[k] = a /\ generated[k])
              added == SubSeq(interaction_records', Len(interaction_records) + 1,
                              Len(interaction_records'))
          IN /\ Len(results) = Len(Agents)
             /\ \A k \in 1..Len(Agents) : results[k].agent_id = Agents[k]
             /\ Failed(results) = {k \in 1..Len(Agents) : ~generated[k]}
             /\ IsPrefix(interaction_records, interaction_records')
             /\ Len(added) = Len(succeeded)
             /\ \A i \in 1..Len(added) : added[i].agent_id = succeeded[i]]_vars

C4_Witness ==
    /\ last_op = "run_co_thinking_scenario"
    /\ Len(ret.results) = 2
    /\ Failed(ret.results) = {1}
    /\ Len(interaction_records) = 1
    /\ interaction_records[1].agent_id = "s2"

(* C5: generate_comprehensive_analysis of an empty interaction log returns, and
   what it returns has an error entry and no section, whatever the survey log
   holds; what it returns of a log that is not empty has no error entry. *)
C5_EmptyLogErrorResult ==
    last_op = "generate_comprehensive_analysis"
        => /\ interaction_records = <<>>
                  => ~raised /\ "error" \in DOMAIN ret /\ DOMAIN ret \cap SectionNames = {}
           /\ (interaction_records # <<>> /\ ~raised)
                  => "error" \notin DOMAIN ret /\ DOMAIN ret = SectionNames

C5_Witness ==
    /\ last_op = "generate_comprehensive_analysis"
    /\ interaction_records = <<>>
    /\ survey_responses # <<>>
    /\ DOMAIN ret = {"error"}

(* C6: the reports of two calls of the analyzer with no record or survey call
   between them are the same, whatever summary, analysis or export calls were
   made between them. *)
C6_AnalysisIdempotent ==
    Len(last_report) = 2 => last_report[2] = last_report[1]

C6_Witness ==
    /\ last_op = "generate_comprehensive_analysis"
    /\ Len(last_report) = 2
    /\ ret = last_report[2]
    /\ DOMAIN ret = SectionNames

(* C7: with producers appending from several threads, every record of the log,
   and so every record a reader has read from it, has all the fields of a record,
   scores and tags included, and is the record its producer built. *)
C7_NoPartialRecordVisible ==
    /\ \A i \in 1..Len(interaction_records) :
          /\ DOMAIN interaction_records[i] = fields_of_record
          /\ \E p \in Producers : interaction_records[i] = Recorded[CallOf[p]]
    /\ \A i \in 1..Len(df) : DOMAIN df[i] = fields_of_record

C7_Witness ==
    /\ pc[Reader] = "read"
    /\ Len(df) = 1
    /\ Len(interaction_records) = 1
    /\ \E p \in Producers : pc[p] = "append" /\ pending[p] # interaction_records[1]

(* C8, as the specification states it: the report of a call of
   generate_comprehensive_analysis is the report of the interaction log as it was
   when the call began. *)
C8_SnapshotAtCallStart ==
    (pc[Reader] = "idle" /\ report # <<>>)
        => report[1] = generate_comprehensive_analysis(start_log, survey_responses, all_na_raises)

(* C9: an export in which the file system refuses a write raises, from
   export_comprehensive_dataset and from export_simulation_data alike, and
   returns no artifact map. *)
C9_WriteFailureRaised ==
    (last_op \in {"export_comprehensive_dataset", "export_simulation_data"} /\ write_error # "none")
        => raised /\ "exception" \in DOMAIN ret

C9_Witness ==
    /\ last_op = "export_simulation_data"
    /\ write_error = "surveys_csv"
    /\ raised
    /\ DOMAIN written = {"complete_json", "interactions_csv"}

(* C10: the artifact map export_comprehensive_dataset returns has the complete
   dump, the workbook and the report; it has the interactions table exactly when
   the interaction log is not empty, and the surveys table exactly when the
   survey log is not empty. *)
C10_ArtifactMap ==
    (last_op = "export_comprehensive_dataset" /\ ~raised)
        => /\ {"complete_json", "excel_analysis", "research_report"} \subseteq DOMAIN ret
           /\ "interactions_csv" \in DOMAIN ret <=> interaction_records # <<>>
           /\ "surveys_csv" \in DOMAIN ret <=> survey_responses # <<>>

C10_Witness ==
    /\ last_op = "export_comprehensive_dataset"
    /\ ~raised
    /\ interaction_records # <<>>
    /\ survey_responses = <<>>
    /\ DOMAIN ret = {"complete_json", "interactions_csv", "excel_analysis", "research_report"}

(* C11: the report an export writes is rendered from the degraded template
   exactly when the analysis of that export has the error entry, which is exactly
   when the interaction log is empty; otherwise it is the normal template. *)
C11_DegradedTemplateIffError ==
    (last_op = "export_comprehensive_dataset" /\ "research_report" \in DOMAIN written)
        => LET analysis_results == written["complete_json"].analysis_results
           IN /\ written["research_report"] \in {"degraded", "normal"}
              /\ written["research_report"] = "degraded" <=> "error" \in DOMAIN analysis_results
              /\ "error" \in DOMAIN analysis_results <=> interaction_records = <<>>

C11_Witness ==
    /\ last_op = "export_comprehensive_dataset"
    /\ Len(interaction_records) = 1
    /\ survey_responses # <<>>
    /\ "research_report" \in DOMAIN written
    /\ written["research_report"] = "normal"

(* C12: the interaction records read back from the complete dump of an export
   of a log that is not empty are as many as the records of the log, in the same
   order, and each has the fields of its record with the same values. *)
C12_DumpRoundTrip ==
    (/\ last_op = "export_comprehensive_dataset"
     /\ "complete_json" \in DOMAIN written
     /\ interaction_records # <<>>)
        => LET dumped == written["complete_json"].interaction_records
               parsed == [i \in 1..Len(dumped) |-> load_record(dumped[i])]
           IN /\ Len(parsed) = Len(interaction_records)
              /\ \A i \in 1..Len(parsed) :
                    /\ DOMAIN parsed[i] = DOMAIN interaction_records[i]
                    /\ \A f \in DOMAIN parsed[i] : parsed[i][f] = interaction_records[i][f]

C12_Witness ==
    /\ last_op = "export_comprehensive_dataset"
    /\ "complete_json" \in DOMAIN written
    /\ Len(written["complete_json"].interaction_records) = 2
    /\ interaction_records[1].cultural_background = None
    /\ interaction_records[2].coherence_score = Frac(7, 12)
    /\ written["complete_json"].interaction_records[1].cultural_background.json = "null"

(* C13: a call of get_summary_statistics returns the error marker exactly when
   the interaction log is empty; otherwise its total_interactions is the length of
   the interaction log and its unique_agents is the number of distinct agent ids
   in it; and the call leaves the interaction log and the survey log as they were. *)
C13_SummaryStatistics ==
    [][last_op' = "get_summary_statistics"
          => /\ ~raised'
             /\ "error" \in DOMAIN ret' <=> interaction_records = <<>>
             /\ interaction_records # <<>>
                   => /\ ret'.total_interactions = Len(interaction_records)
                      /\ ret'.unique_agents =
                            Cardinality({interaction_records[i].agent_id :
                                            i \in 1..Len(interaction_records)})
             /\ interaction_records' = interaction_records
             /\ survey_responses' = survey_responses]_vars

C13_Witness ==
    /\ last_op = "get_summary_statistics"
    /\ Len(interaction_records) = 2
    /\ interaction_records[1].agent_id = interaction_records[2].agent_id
    /\ survey_responses # <<>>
    /\ ret.total_interactions = 2
    /\ ret.unique_agents = 1

(* C14: a call of analyze_response on an empty text or a text of whitespace
   only returns, whatever the profile, and what it returns has coherence, cultural
   consistency, foundation alignment and complexity 0.0, the one response category
   "empty", and no question type, no construct and no emotional indicator. *)
C14_BlankResponseAnalysis ==
    (last_op = "analyze_response" /\ IsBlank(args[1]))
        => /\ ~raised
           /\ "exception" \notin DOMAIN ret
           /\ ret.coherence_score = FZero
           /\ ret.cultural_consistency = FZero
           /\ ret.foundation_alignment = FZero
           /\ ret.complexity_score = FZero
           /\ ret.response_categories = <<"empty">>
           /\ ret.question_types = <<>>
           /\ ret.constructs_evident = <<>>
           /\ ret.emotional_indicators = <<>>

C14_Witness ==
    /\ last_op = "analyze_response"
    /\ args[1] = <<WS, WS>>
    /\ args[2] = ProfileBalanced
    /\ ret.response_categories = <<"empty">>
    /\ ret.complexity_score = FZero

InUnit(q) == FLeq(FZero, q) /\ FLeq(q, FOne)

(* C15: every score a call of analyze_response returns is in [0,1]: coherence,
   cultural consistency, foundation alignment and complexity, and, for a text that
   is not blank, the proficiency consistency, which is then among the linguistic
   features; and the three scores of every record of the interaction log are in
   [0,1]. *)
C15_ScoresInUnitInterval ==
    /\ (last_op = "analyze_response" /\ ~raised)
          => /\ InUnit(ret.coherence_score)
             /\ InUnit(ret.cultural_consistency)
             /\ InUnit(ret.foundation_alignment)
             /\ InUnit(ret.complexity_score)
             /\ ~IsBlank(args[1])
                   => /\ "proficiency_consistency" \in DOMAIN ret.linguistic_analysis
                      /\ InUnit(ret.linguistic_analysis.proficiency_consistency)
    /\ \A i \in 1..Len(interaction_records) :
          /\ InUnit(interaction_records[i].coherence_score)
          /\ InUnit(interaction_records[i].cultural_consistency_score)
          /\ InUnit(interaction_records[i].foundation_alignment_score)

(* the caps are reached: nine markers of eight, and a record in the log *)
C15_Witness ==
    /\ last_op = "analyze_response"
    /\ args[1] = TextMany
    /\ Get(args[2], "culture", "") = "US_Individualistic"
    /\ ret.cultural_consistency = FOne
    /\ ret.linguistic_analysis.proficiency_consistency = FZero
    /\ Len(interaction_records) = 2
    /\ interaction_records[2].raw_response = TextExample

(* The string a text stands for, character by character: " " for a blank, "x"
   for any other character *)
RECURSIVE Characters(_)
Characters(text) ==
    IF text = <<>> THEN <<>>
    ELSE LET n == Len(text)
             t == text[n]
         IN Characters(SubSeq(text, 1, n - 1))
            \o (IF IsWord(t) /\ n > 1 THEN <<" ">> ELSE <<>>)
            \o (IF t = WS THEN <<" ">> ELSE [k \in 1..Len(t) |-> "x"])

(* C16: in every record of the interaction log the word count is the number of
   maximal runs of characters of the raw response that are not whitespace, and the
   character count is the number of its characters. *)
C16_LengthFields ==
    \A i \in 1..Len(interaction_records) :
        LET string == Characters(interaction_records[i].raw_response)
        IN /\ interaction_records[i].response_length_words =
                 Cardinality({k \in 1..Len(string) :
                                 string[k] # " " /\ (k = 1 \/ string[k - 1] = " ")})
           /\ interaction_records[i].response_length_chars = Len(string)

(* "we unsure ?!" and " " *)
C16_Witness ==
    /\ Len(interaction_records) = 2
    /\ interaction_records[1].raw_response = TextUnsure
    /\ interaction_records[1].response_length_words = 3
    /\ interaction_records[1].response_length_chars = 12
    /\ interaction_records[2].raw_response = <<WS>>
    /\ interaction_records[2].response_length_words = 0
    /\ interaction_records[2].response_length_chars = 1

(* C17: two records of the interaction log with the same raw response and the
   same values in the fields taken from the profile summary have the same three
   scores and the same three tag lists, whatever their agent ids, time stamps and
   scenarios, and whatever the log held when each was recorded. *)
C17_ScoresDependOnTextAndProfile ==
    \A i, j \in 1..Len(interaction_records) :
        LET r1 == interaction_records[i]
            r2 == interaction_records[j]
        IN (/\ r1.raw_response = r2.raw_response
            /\ \A f \in ProfileFields : r1[f[1]] = r2[f[1]])
              => /\ r1.coherence_score = r2.coherence_score
                 /\ r1.cultural_consistency_score = r2.cultural_consistency_score
                 /\ r1.foundation_alignment_score = r2.foundation_alignment_score
                 /\ r1.question_types_asked = r2.question_types_asked
                 /\ r1.response_categories = r2.response_categories
                 /\ r1.psychological_constructs_evident = r2.psychological_constructs_evident

C17_Witness ==
    /\ last_op = "record_agent_interaction"
    /\ Len(interaction_records) = 2
    /\ interaction_records[1].raw_response = TextExample
    /\ interaction_records[2].raw_response = TextExample
    /\ interaction_records[1].cultural_background = "European_Balanced"
    /\ interaction_records[2].cultural_background = "European_Balanced"
    /\ interaction_records[1].agent_id # interaction_records[2].agent_id
    /\ interaction_records[1].timestamp # interaction_records[2].timestamp
    /\ interaction_records[1].scenario_name # interaction_records[2].scenario_name
    /\ interaction_records[1].coherence_score = Frac(7, 12)
    /\ interaction_records[2].response_categories = <<"agreeable", "questioning", "reflective">>

(* df[column].nunique(): the distinct values of a column that are not missing *)
NUnique(log, column) == Cardinality({log[i][column] : i \in 1..Len(log)} \ {None})

(* C18: the recommendations of an analysis of a log that is not empty are four
   sentences, in the order coherence, cultural diversity, alignment, sample size.
   Each is the positive sentence exactly when its condition holds, and the negative
   one otherwise: the mean coherence is above 0.7; there are at least four distinct
   cultures; the mean alignment is above 0.6; there are more than 100 records.  A
   log that meets the four conditions gets the four positive sentences. *)
C18_Recommendations ==
    (last_op = "generate_comprehensive_analysis" /\ ~raised /\ interaction_records # <<>>)
        => LET recommendations == ret.recommendations
               coherent == FLess(Frac(7, 10), Mean(Column(interaction_records, "coherence_score")))
               diverse == NUnique(interaction_records, "cultural_background") >= 4
               aligned ==
                   FLess(Frac(6, 10), Mean(Column(interaction_records, "foundation_alignment_score")))
               large == Len(interaction_records) > 100
           IN /\ Len(recommendations) = 4
              /\ recommendations[1] =
                    IF coherent
                    THEN "High response quality suggests simulation is suitable for research use"
                    ELSE "Consider improving agent prompts to increase response coherence"
              /\ recommendations[2] =
                    IF diverse
                    THEN "Good cultural diversity achieved for cross-cultural research"
                    ELSE "Consider adding more cultural backgrounds for comprehensive diversity"
              /\ recommendations[3] =
                    IF aligned
                    THEN "Strong foundation alignment validates theoretical consistency"
                    ELSE "Review foundation document integration to improve theoretical alignment"
              /\ recommendations[4] =
                    IF large
                    THEN "Sample size adequate for statistical analysis"
                    ELSE "Consider increasing sample size for more robust statistical analysis"

C18_Witness ==
    /\ last_op = "generate_comprehensive_analysis"
    /\ ~raised
    /\ Len(interaction_records) = 101
    /\ NUnique(interaction_records, "cultural_background") = 4
    /\ ret.recommendations =
          <<"High response quality suggests simulation is suitable for research use",
            "Good cultural diversity achieved for cross-cultural research",
            "Strong foundation alignment validates theoretical consistency",
            "Sample size adequate for statistical analysis">>

(* open(filename): the path a file name alone stands for *)
PathOf(filename) == [directory |-> ".", name |-> <<filename>>]

(* C19: when a scenario has been run, a call of export_simulation_data with a
   file name that returns has left, at the path the file name stands for, a JSON
   file whose content is a collection that is not empty and in which every
   scenario item has a results entry.  (A call with the default prefix is a call
   without a file name.) *)
C19_ExportLeavesFileAtPath ==
    (/\ last_op = "export_simulation_data"
     /\ args # "co_thinking_simulation"
     /\ ~raised
     /\ simulation_data # <<>>)
        => \E a \in DOMAIN written :
              /\ file_path(args, a, Now) = PathOf(args)
              /\ a = "complete_json"
              /\ LET exported_data == written[a]
                     scenario_items ==
                         DOMAIN exported_data
                             \ {"metadata", "interaction_records", "survey_responses", "analysis_results"}
                 IN /\ DOMAIN exported_data # {}
                    /\ \A item \in scenario_items : "results" \in DOMAIN exported_data[item]

(* The four factors of the coherence of a text: the fraction of its sentences, the
   pieces between full stops that are not blank, that have more than four tokens
   (0 when it has no sentence); its connectives, at most five counted, over five;
   its first-person phrases, at most three counted, over three; and 0.8 *)
CoherenceFactors(response) ==
    LET sentences == Sentences(response)
        long == Cardinality({i \in 1..Len(sentences) : Cardinality(SplitStarts(sentences[i])) > 4})
        connectives ==
            CountWords(response, {"because", "since", "therefore", "however", "although",
                                  "but", "and", "so", "thus"})
        phrases ==
            CountPhrases(response, {<<"i", "think">>, <<"i", "believe">>, <<"in", "my", "opinion">>,
                                    <<"i", "would">>, <<"i", "feel">>})
    IN <<IF sentences = <<>> THEN FZero ELSE Frac(long, Len(sentences)),
         Frac(Min(connectives, 5), 5),
         Frac(Min(phrases, 3), 3),
         Frac(4, 5)>>

(* C20 as stated: the coherence of every text that is not blank is the mean of its
   four factors. *)
C20_CoherenceIsMeanOfFactors ==
    (last_op = "analyze_response" /\ ~raised /\ ~IsBlank(args[1]))
        => ret.coherence_score = FDiv(FSum(CoherenceFactors(args[1])), 4)

(* C20, amended: the coherence of a text that has a sentence is the mean of its
   four factors, and the coherence of a text that is not blank and has no sentence,
   full stops and whitespace only, is 0.0; the factors of the text of the example
   are 1/3, 0.2, 1.0 and 0.8, and its coherence is 0.583 to three decimals. *)
C20_CoherenceOfSentences ==
    (last_op = "analyze_response" /\ ~raised /\ ~IsBlank(args[1]))
        => LET response == args[1]
               factors == CoherenceFactors(response)
           IN /\ Sentences(response) # <<>> => ret.coherence_score = FDiv(FSum(factors), 4)
              /\ Sentences(response) = <<>> => ret.coherence_score = FZero
              /\ response = TextExample
                    => /\ factors = <<Frac(1, 3), Frac(2, 10), Frac(10, 10), Frac(8, 10)>>
                       /\ Round(ret.coherence_score, 3) = Frac(583, 1000)

C20_Witness ==
    /\ last_op = "analyze_response"
    /\ ~raised
    /\ args[1] = TextExample
    /\ ret.coherence_score = Frac(7, 12)
    /\ ret.linguistic_analysis.sentence_count = 3

(* 1 - |a - b| / max(1, a + b) of two counts: twice the smaller over the sum, and 1
   when both are 0 *)
Balance(a, b) == IF a + b = 0 THEN FOne ELSE Frac(2 * Min(a, b), a + b)

(* C21 as stated: for a profile of a balanced culture the cultural consistency is
   the balance of the count of the individualistic markers i, my, myself,
   personally, individual and the count of the collectivistic markers we, our,
   together, group, community, family, collective. *)
C21_BalanceOfAllMarkers ==
    (/\ last_op = "analyze_response"
     /\ ~raised
     /\ ~IsBlank(args[1])
     /\ LowerHas(Get(args[2], "culture", ""), "balanced"))
        => ret.cultural_consistency =
              Balance(CountWords(args[1], {"i", "my", "myself", "personally", "individual"}),
                      CountWords(args[1], {"we", "our", "together", "group", "community",
                                           "family", "collective"}))

(* C21, amended: for a profile of a balanced culture the cultural consistency of a
   text that is not blank is the balance of the count of i, my, myself and the
   count of we, our, together. *)
C21_BalanceOfPronouns ==
    (/\ last_op = "analyze_response"
     /\ ~raised
     /\ ~IsBlank(args[1])
     /\ LowerHas(Get(args[2], "culture", ""), "balanced"))
        => ret.cultural_consistency =
              Balance(CountWords(args[1], {"i", "my", "myself"}),
                      CountWords(args[1], {"we", "our", "together"}))

(* "I trust my family and our partner": two of the one, one of the other *)
C21_Witness ==
    /\ last_op = "analyze_response"
    /\ args[1] = TextFamily
    /\ args[2] = ProfileBalanced
    /\ ret.cultural_consistency = Frac(2, 3)

(* 1 - |actual - expected| / max(expected, 0.1), clamped to [0,1], actual being the
   share of the words of the text that have more than six characters *)
Consistency(response, expected) ==
    LET actual == Frac(ComplexWords(response), Max(1, WordCount(response)))
        distance == IF FLess(actual, expected) THEN FSub(expected, actual) ELSE FSub(actual, expected)
        scale == IF FLess(expected, Frac(1, 10)) THEN Frac(1, 10) ELSE expected
    IN IF FLeq(scale, distance) THEN FZero ELSE FSub(FOne, FQuot(distance, scale))

(* the expected ratio of a stated proficiency *)
ExpectedOfLabel(label) ==
    CASE label = "Native" -> Frac(30, 100)
      [] label = "Advanced" -> Frac(25, 100)
      [] label = "Intermediate" -> Frac(15, 100)
      [] label = "Beginner" -> Frac(5, 100)
      [] OTHER -> Frac(20, 100)

(* C22 as stated: the expected ratio is 0.30, 0.25, 0.15 and 0.05 for native,
   advanced, intermediate and beginner and 0.20 otherwise, a profile that states no
   proficiency included, and the proficiency consistency is 1 - |actual - expected|
   / max(expected, 0.1) clamped to [0,1]. *)
C22_UnstatedProficiencyIsDefault ==
    (last_op = "analyze_response" /\ ~raised /\ ~IsBlank(args[1]))
        => ret.linguistic_analysis.proficiency_consistency =
              Consistency(args[1],
                          IF "english_proficiency" \in DOMAIN args[2]
                          THEN ExpectedOfLabel(args[2].english_proficiency)
                          ELSE Frac(20, 100))

(* C22, amended: the same, but a profile that states no proficiency counts as
   advanced, 0.25; 0.20 is the ratio of a stated label that is none of the four. *)
C22_UnstatedProficiencyIsAdvanced ==
    (last_op = "analyze_response" /\ ~raised /\ ~IsBlank(args[1]))
        => ret.linguistic_analysis.proficiency_consistency =
              Consistency(args[1],
                          IF "english_proficiency" \in DOMAIN args[2]
                          THEN ExpectedOfLabel(args[2].english_proficiency)
                          ELSE Frac(25, 100))

(* four words of thirteen have more than six characters, the full stop or comma
   after a word counted; no proficiency stated *)
C22_Witness ==
    /\ last_op = "analyze_response"
    /\ args[1] = TextExample
    /\ "english_proficiency" \notin DOMAIN args[2]
    /\ ret.linguistic_analysis.complex_words = 4
    /\ ret.linguistic_analysis.word_count = 13
    /\ ret.linguistic_analysis.proficiency_consistency = Frac(10, 13)

(* ---------------------------------------------------------------------- *)
(* The bucket a record of age a is said to be counted in *)
BucketOf(a) ==
    IF a < 18 THEN "Under 18" ELSE IF a <= 25 THEN "18-25" ELSE IF a <= 35 THEN "26-35"
    ELSE IF a <= 50 THEN "36-50" ELSE "Over 50"

(* The age-grouped statistics of a report, each with the column it averages *)
AgeStatistics(analysis) ==
    {<<analysis.behavioral_patterns.trust_patterns.by_age_group, "trust_level">>,
     <<analysis.demographic_insights.age_patterns.trust_by_age, "trust_level">>,
     <<analysis.demographic_insights.age_patterns.response_length_by_age, "response_length_words">>}

(* C23: in every age-grouped statistic of a report, each record of the log is
   counted in exactly one of the five buckets, the one of its age a: 'Under 18' iff
   a < 18, '18-25' iff 18 <= a <= 25, '26-35' iff 26 <= a <= 35, '36-50' iff
   36 <= a <= 50, 'Over 50' iff a > 50; so the statistic of a bucket is the rounded
   mean over exactly the records of those ages, and a bucket is without a value
   only when no record has such an age (a record whose age defaulted to 0 is
   counted under 'Under 18') *)
C23_EveryRecordInItsBucket ==
    (last_op = "generate_comprehensive_analysis" /\ ~raised /\ interaction_records # <<>>)
        => \A stat \in AgeStatistics(ret) : \A k \in 1..Len(AgeLabels) :
              LET g == AgeLabels[k]
                  members == SelectSeq(interaction_records, LAMBDA r : BucketOf(r.age) = g)
                  values == IF stat[2] = "response_length_words"
                            THEN CountColumn(members, stat[2]) ELSE Column(members, stat[2])
              IN IF members = <<>>
                 THEN g \in DOMAIN stat[1] => stat[1][g] = NaNScore
                 ELSE g \in DOMAIN stat[1] /\ stat[1][g] = Round(Mean(values), 2)

(* ---------------------------------------------------------------------- *)
(* The number of records whose evident constructs contain the construct c *)
Frequency(records, c) ==
    Cardinality({i \in 1..Len(records) :
                    \E k \in 1..Len(records[i].psychological_constructs_evident) :
                        records[i].psychological_constructs_evident[k] = c})

(* C24 as stated: the psychological_constructs section of a report on a non-empty
   log has an entry for each of the five fixed constructs, whose frequency is the
   number of records that show the construct, possibly 0, and whose percentage is
   frequency / total records x 100 *)
C24_EntryForEveryConstruct ==
    (last_op = "generate_comprehensive_analysis" /\ ~raised /\ interaction_records # <<>>)
        => \A k \in 1..Len(ConstructNames) :
              LET c == ConstructNames[k]
              IN /\ c \in DOMAIN ret.psychological_constructs
                 /\ ret.psychological_constructs[c].frequency = Frequency(interaction_records, c)
                 /\ ret.psychological_constructs[c].percentage =
                        Frac(Frequency(interaction_records, c) * 100, Len(interaction_records))

(* C24: the psychological_constructs section of a report on a non-empty log has
   an entry for exactly those of the five fixed constructs that at least one
   record shows; the entry's frequency is the number of records that show the
   construct and its percentage is frequency / total records x 100, rounded to
   one decimal *)
C24_EntryForEveryShownConstruct ==
    (last_op = "generate_comprehensive_analysis" /\ ~raised /\ interaction_records # <<>>)
        => /\ DOMAIN ret.psychological_constructs =
                  {c \in {ConstructNames[k] : k \in 1..Len(ConstructNames)} :
                      Frequency(interaction_records, c) > 0}
           /\ \A c \in DOMAIN ret.psychological_constructs :
                 /\ ret.psychological_constructs[c].frequency = Frequency(interaction_records, c)
                 /\ ret.psychological_constructs[c].percentage =
                        Round(Frac(Frequency(interaction_records, c) * 100,
                                   Len(interaction_records)), 1)

C24_Witness ==
    /\ last_op = "generate_comprehensive_analysis" /\ ~raised
    /\ Len(interaction_records) = 2
    /\ \E c \in DOMAIN ret.psychological_constructs :
          ret.psychological_constructs[c] = [frequency |-> 1, percentage |-> Frac(50, 1)]
    /\ \E k \in 1..Len(ConstructNames) : ConstructNames[k] \notin DOMAIN ret.psychological_constructs

(* ---------------------------------------------------------------------- *)
(* The sum of the participant counts of the entries of a cultural analysis *)
RECURSIVE ParticipantsOf(_, _)
ParticipantsOf(cultural_analysis, cultures) ==
    IF cultures = {} THEN 0
    ELSE LET c == CHOOSE x \in cultures : TRUE
         IN cultural_analysis[c].n_participants + ParticipantsOf(cultural_analysis, cultures \ {c})

(* The culture labels of the records of a log; a record of a profile without a
   culture has the empty label, a record of a profile whose culture is None none *)
LabelsOf(records) == {records[i].cultural_background : i \in 1..Len(records)} \ {None}

(* C25 as stated: the cultural_analysis section has exactly one entry per distinct
   culture label of the log, the empty label of a record whose culture was missing
   included, so its number of entries is the summary's cultural_diversity and the
   participant counts of its entries sum to the total number of records *)
C25_EntryForEveryLabel ==
    (last_op = "generate_comprehensive_analysis" /\ ~raised /\ interaction_records # <<>>)
        => /\ DOMAIN ret.cultural_analysis = LabelsOf(interaction_records)
           /\ Cardinality(DOMAIN ret.cultural_analysis) = ret.summary.cultural_diversity
           /\ ParticipantsOf(ret.cultural_analysis, DOMAIN ret.cultural_analysis)
                 = Len(interaction_records)

(* C25: the cultural_analysis section has exactly one entry per distinct culture
   label of the log other than the empty label; its number of entries is the
   summary's cultural_diversity, less one when a record has the empty label; an
   entry's participant count is the number of records of its label, so the counts
   sum to the number of records that have a label other than the empty one *)
C25_EntryForEveryNamedCulture ==
    (last_op = "generate_comprehensive_analysis" /\ ~raised /\ interaction_records # <<>>)
        => LET named == LabelsOf(interaction_records) \ {""}
               unnamed == IF "" \in LabelsOf(interaction_records) THEN 1 ELSE 0
           IN /\ DOMAIN ret.cultural_analysis = named
              /\ Cardinality(DOMAIN ret.cultural_analysis) = ret.summary.cultural_diversity - unnamed
              /\ \A c \in named :
                    ret.cultural_analysis[c].n_participants =
                        Cardinality({i \in 1..Len(interaction_records) :
                                        interaction_records[i].cultural_background = c})
              /\ ParticipantsOf(ret.cultural_analysis, DOMAIN ret.cultural_analysis) =
                    Cardinality({i \in 1..Len(interaction_records) :
                                    interaction_records[i].cultural_background \in named})

C25_Witness ==
    /\ last_op = "generate_comprehensive_analysis" /\ ~raised
    /\ Len(interaction_records) = 2
    /\ \E i \in 1..2 : interaction_records[i].cultural_background = ""
    /\ DOMAIN ret.cultural_analysis = {"US_Individualistic"}
    /\ ret.cultural_analysis["US_Individualistic"].n_participants = 1
    /\ ret.summary.cultural_diversity = 2

(* ---------------------------------------------------------------------- *)
(* The mean alignment of the records of a culture, the cultures of the largest
   mean, and the places of a label in the log and among the sorted labels *)
MeanAlignment(records, c) == Mean(Column(Rows(records, c), "foundation_alignment_score"))

BestAligned(records) ==
    {c \in LabelsOf(records) :
        \A d \in LabelsOf(records) : FLeq(MeanAlignment(records, d), MeanAlignment(records, c))}

FirstSeen(records, c) ==
    CHOOSE i \in 1..Len(records) :
        /\ records[i].cultural_background = c
        /\ \A j \in 1..(i - 1) : records[j].cultural_background # c

SortedPlace(c) == CHOOSE k \in 1..Len(CultureOrder) : CultureOrder[k] = c

(* C26 as stated: best_aligned_culture of a report names a culture of the log whose
   mean foundation alignment is at least that of every other culture of the log,
   and of several cultures that share the largest mean it names the one that the
   log shows first *)
C26_BestAlignedFirstSeen ==
    (last_op = "generate_comprehensive_analysis" /\ ~raised /\ interaction_records # <<>>)
        => LET best == ret.foundation_alignment.alignment_trends.best_aligned_culture
           IN /\ best \in BestAligned(interaction_records)
              /\ \A c \in BestAligned(interaction_records) :
                    FirstSeen(interaction_records, best) <= FirstSeen(interaction_records, c)

(* C26: best_aligned_culture of a report names a culture of the log whose mean
   foundation alignment is at least that of every other culture of the log, and
   of several cultures that share the largest mean it names the one whose label
   is the first in sorted order, wherever the log shows it *)
C26_BestAlignedFirstSorted ==
    (last_op = "generate_comprehensive_analysis" /\ ~raised /\ interaction_records # <<>>)
        => LET best == ret.foundation_alignment.alignment_trends.best_aligned_culture
           IN /\ best \in BestAligned(interaction_records)
              /\ \A c \in BestAligned(interaction_records) : SortedPlace(best) <= SortedPlace(c)

(* Two records of one text, the first of a culture whose label sorts last: both
   cultures have the one record's alignment as their mean *)
C26_Witness ==
    /\ last_op = "generate_comprehensive_analysis" /\ ~raised
    /\ Len(interaction_records) = 2
    /\ interaction_records[1].cultural_background = "US_Individualistic"
    /\ interaction_records[2].cultural_background = "East_Asian_Collectivistic"
    /\ interaction_records[1].foundation_alignment_score
          = interaction_records[2].foundation_alignment_score
    /\ ret.foundation_alignment.alignment_trends.best_aligned_culture = "East_Asian_Collectivistic"

(* ---------------------------------------------------------------------- *)
(* The survey text of the last call and the quality assessed of it *)
SurveyText == IF last_op = "record_survey_response" THEN args[2].survey_responses ELSE args

SurveyQuality == IF last_op = "record_survey_response" THEN ret.response_quality ELSE ret

(* The three indicators of the survey coherence: the pieces between full stops
   that have more than three words, the connectives, and a first-person word *)
Indicators(text) ==
    Cardinality({i \in 1..Len(SplitDot(text)) : WordCount(SplitDot(text)[i]) > 3})
    + CountWords(text, {"because", "since", "therefore", "however", "although"})
    + (IF \E i \in 1..Len(text) : text[i] \in {"I", "my", "me"} THEN 1 ELSE 0)

(* C27 as stated: for every survey text the coherence sub-score of its quality is
   min(1, (substantial sentences + connectives + 1 if a first-person word is
   present else 0) / 10), all four sub-scores are in [0,1], and the empty text
   scores 0 on coherence *)
C27_SurveyCoherenceOfIndicators ==
    last_op \in {"_assess_survey_quality", "record_survey_response"}
        => /\ SurveyQuality.coherence = FMin(FOne, Frac(Indicators(SurveyText), 10))
           /\ \A score \in DOMAIN SurveyQuality : InUnit(SurveyQuality[score])
           /\ SurveyText = <<>> => SurveyQuality.coherence = FZero

(* C27: for every survey text that has a full stop the coherence sub-score of its
   quality is min(1, (substantial sentences + connectives + 1 if a first-person
   word is present else 0) / 10); a text without a full stop, the empty text among
   them, scores 0.5 on coherence; all four sub-scores are in [0,1] *)
C27_SurveyCoherenceOfSentences ==
    last_op \in {"_assess_survey_quality", "record_survey_response"}
        => /\ SurveyQuality.coherence =
                  IF \E i \in 1..Len(SurveyText) : SurveyText[i] = "."
                  THEN FMin(FOne, Frac(Indicators(SurveyText), 10))
                  ELSE FHalf
           /\ DOMAIN SurveyQuality = {"completeness", "coherence", "specificity", "cultural_relevance"}
           /\ \A score \in DOMAIN SurveyQuality : InUnit(SurveyQuality[score])

C27_Witness ==
    /\ last_op = "record_survey_response"
    /\ args = SurveyCall(Text1)
    /\ survey_responses[Len(survey_responses)].response_quality.coherence = Frac(3, 10)

(* ---------------------------------------------------------------------- *)
(* Survey logs to compare with: none, and the one of each survey call *)
OtherSurveyLogs == {<<>>} \cup {<<Surveyed[c]>> : c \in SurveyCalls}

(* C28: the two logs are independent.  A call of record_survey_response appends
   exactly one entry to the survey log and leaves the interaction log as it was; a
   call of record_agent_interaction leaves the survey log as it was; and the report
   and the summary statistics are those of the interaction log with any survey
   log, so they are the same for two survey logs when the interaction log is the
   same *)
C28_LogsIndependent ==
    [][/\ last_op' = "record_survey_response"
          => /\ Len(survey_responses') = Len(survey_responses) + 1
             /\ SubSeq(survey_responses', 1, Len(survey_responses)) = survey_responses
             /\ interaction_records' = interaction_records
       /\ last_op' = "record_agent_interaction" => survey_responses' = survey_responses
       /\ last_op' = "generate_comprehensive_analysis"
          => \A other \in OtherSurveyLogs :
                ret' = generate_comprehensive_analysis(interaction_records', other, all_na_raises')
       /\ last_op' = "get_summary_statistics"
          => ret' = get_summary_statistics(interaction_records')]_vars

(* A survey recorded after an interaction, and a report of the log of one record
   computed with a survey in the other log *)
C28_Witness ==
    /\ last_op = "generate_comprehensive_analysis"
    /\ Len(interaction_records) = 1
    /\ Len(survey_responses) = 1
    /\ "summary" \in DOMAIN ret
    /\ ret.summary.total_interactions = 1

(* ---------------------------------------------------------------------- *)
(* C29: in the complete dump that one call of export_comprehensive_dataset writes,
   total_interactions of the metadata is the number of interaction records in the
   dump and, when that number is not zero, total_interactions of the report in the
   dump, also when producers append records while the export runs *)
C29_DumpCountsAgree ==
    (pc[Reader] = "idle" /\ "interaction_records" \in DOMAIN dump)
        => /\ dump.metadata.total_interactions = Len(dump.interaction_records)
           /\ Len(dump.interaction_records) # 0
                 => /\ "summary" \in DOMAIN dump.analysis_results
                    /\ dump.analysis_results.summary.total_interactions
                          = dump.metadata.total_interactions

(* ---------------------------------------------------------------------- *)
(* C30: for every log that is not empty, a log of one record and a log in which
   every culture has one record included, generate_comprehensive_analysis does not
   raise and returns a report with all eight sections, in which
   most_variable_culture names a culture of the log *)
C30_ReportOfEveryLog ==
    (last_op = "generate_comprehensive_analysis" /\ interaction_records # <<>>)
        => /\ ~raised
           /\ DOMAIN ret = SectionNames
           /\ ret.foundation_alignment.alignment_trends.most_variable_culture
                 \in LabelsOf(interaction_records)

====
